---- MODULE Spec2Model ----
(***************************************************************************)
(* EroView / EroMaps SICAR: the developer dashboard (dev_sicar.py) and the *)
(* browser robot (utils/sicar_robot.py).                                   *)
(*                                                                         *)
(* Spec       the dashboard: request handlers and buscar_sicar threads     *)
(*            sharing the global app_state dictionary.                     *)
(* SpecRobot  one SICARRobot driven through the seven pipeline methods.    *)
(* SpecCalls  the functions and handlers whose answer depends on their     *)
(*            input only, each applied to inputs drawn from bounded sets.  *)
(* SpecMethods  one SICARRobot object whose methods are called one after   *)
(*            the other: add_diagnostic, _update_status, _inicializar_driver*)
(***************************************************************************)
EXTENDS Integers, Sequences, FiniteSets, TLC

(* ----------------------------- bounds --------------------------------- *)
\* number of search requests (POST /iniciar, POST /sicar/search) per run
MaxSearches == 2
\* largest max_attempts argument given to acessar_sicar
MaxAttempts == 5
\* number of method calls made on the robot object of SpecMethods
MaxCalls == 2
\* longest list of steps given to GET /status in any order of statuses
MaxSteps == 4

(* ------------------------- program constants -------------------------- *)
\* the callback installed by init_sicar_robot: def log_callback(message, level)
LogCallbackParams == 2
\* add_diagnostic / _update_status call self.log_callback({...}) with one dict
DiagnosticCallArgs == 1
\* _inicializar_driver, line 123
max_tentativas == 3

Searches == 1..MaxSearches

StepIds == {"init", "browser", "access_site", "select_state", "select_city",
            "select_property", "extract", "finish"}

\* the handler of POST /cancelar, as an actor on a driver (threads are 1..)
CancelHandler == 0

VARIABLES
    app,        \* the global app_state dictionary
    nreq,       \* number of search requests received so far
    kind,       \* kind[s]: the route that started search s
    hpc,        \* hpc[s]: position of the request handler of search s
    tpc,        \* tpc[s]: position of the buscar_sicar thread of search s
    stage,      \* stage[s]: the pipeline stage thread s is at (1..7)
    drv,        \* drv[s]: the driver of the robot local to thread s
    drvOps,     \* drvOps[s]: who did what on the driver thread s created
    tfail,      \* tfail[s]: how the search of thread s failed ("none" if not)
    cancelled,  \* the cancel processed since the last search request
    lastErr,    \* the thread whose error handler ran last (0: none yet)
    rcfg,       \* the robot: parameters of its log callback (0: None), dev_mode
    rN,         \* the max_attempts argument of acessar_sicar
    rdriver,    \* self.driver: "live" or "none"
    rstage,     \* the pipeline method the caller is at (1..7)
    rpc,        \* position inside the pipeline
    rhist,      \* outcomes of the page-load attempts of the acessar_sicar call
    rtried,     \* strategies tried by the selecionar_estado call
    rdiag,      \* self.diagnostics: entries per operation and success
    rret,       \* what the last pipeline method gave its caller
    rruns,      \* rruns[k]: how many times pipeline method k was started
    fn,         \* the function or handler that was called last ("none": none yet)
    arg,        \* the input it was called with
    ret,        \* what it returned
    log_callback, \* self.log_callback: number of parameters (0: None)
    diagnostics,  \* self.diagnostics
    driver,     \* self.driver: "live" or "none"
    created,    \* number of webdrivers constructed so far
    quits,      \* number of driver.quit() calls so far
    clock,      \* number of method calls made on the object so far
    cache       \* the content of cache/localizacao_cache.json (no key: no file)

dashVars == <<app, nreq, kind, hpc, tpc, stage, drv, drvOps, tfail, cancelled, lastErr>>
robotVars == <<rcfg, rN, rdriver, rstage, rpc, rhist, rtried, rdiag, rret, rruns>>
objVars == <<log_callback, diagnostics, driver, created, quits, clock, cache>>
callVars == <<fn, arg, ret, objVars>>
vars == <<dashVars, robotVars, callVars>>

(* --------------------------- app_state -------------------------------- *)
NoError == [message |-> "None", traceback |-> FALSE]

\* variant: an error record that keeps the message only
error_record_message_only(msg) == [message |-> msg, traceback |-> FALSE]

\* {'message': str(e), 'traceback': traceback.format_exc()}
error_record(msg) == [message |-> msg, traceback |-> TRUE]

PendingSteps == [i \in StepIds |-> "pending"]

\* the steps list iniciar_busca installs after starting the thread
IniciarSteps == [i \in StepIds |->
                    IF i = "init" THEN "success"
                    ELSE IF i = "browser" THEN "running" ELSE "pending"]

\* reset_state(): a fresh dictionary; it has no 'search_id' key (0 = absent)
\* and no robot (0 = None)
reset_state == [status      |-> "idle",
                steps       |-> PendingSteps,
                logs        |-> "empty",
                result      |-> "None",
                error       |-> NoError,
                robot       |-> 0,
                started_at  |-> FALSE,
                finished_at |-> FALSE,
                search_id   |-> 0]

\* add_log, called n times: app_state['logs'].append(...).  The list is
\* modelled by whether it holds an entry
add_log(a, n) == [a EXCEPT !.logs = "entries"]

\* update_step(step_id, status) of dev_sicar.py line 1024
update_step(a, id, st) ==
    IF id \in DOMAIN a.steps THEN [a EXCEPT !.steps[id] = st] ELSE a

(* ----------------------------- the robot ------------------------------ *)
\* add_diagnostic calls the callback, unguarded, with DiagnosticCallArgs
\* positional arguments: a callback with another arity raises TypeError
\* (cb: the number of parameters of the installed callback, 0 for None)
add_diagnostic_raises(cb) == cb # 0 /\ cb # DiagnosticCallArgs

\* _update_status calls add_diagnostic outside its try block
update_status_raises(cb) == add_diagnostic_raises(cb)

\* the result of the robot method of stage k as buscar_sicar sees it:
\* every pipeline method starts with _update_status / add_diagnostic (and
\* calls it again in its own except handler), so with a raising callback the
\* exception reaches the caller; otherwise the method answers o
StageOutcome(cb, o) == IF update_status_raises(cb) THEN "raise" ELSE o

\* the step buscar_sicar marks 'success' / 'running' after stage k succeeded
StageDone == <<"access_site", "none", "select_state", "none", "select_city",
               "select_property", "extract">>
StageRunning == <<"select_state", "none", "select_city", "none", "select_property",
                  "extract", "finish">>
NStages == 7

(* ------------------------------- Init --------------------------------- *)
DashInit ==
    \* the module-level app_state literal: 'steps': [] and no 'search_id'
    /\ app = [status |-> "idle", steps |-> [i \in {} |-> "pending"],
              logs |-> "empty", result |-> "None", error |-> NoError, robot |-> 0,
              started_at |-> FALSE, finished_at |-> FALSE, search_id |-> 0]
    /\ nreq = 0
    /\ kind = [s \in Searches |-> "none"]
    /\ hpc = [s \in Searches |-> "none"]
    /\ tpc = [s \in Searches |-> "none"]
    /\ stage = [s \in Searches |-> 0]
    /\ drv = [s \in Searches |-> "none"]
    /\ drvOps = [s \in Searches |-> {}]
    /\ tfail = [s \in Searches |-> "none"]
    /\ cancelled = "no"
    /\ lastErr = 0

NoDiagnostics == [open_ok |-> 0, open_fail |-> 0, sel_ok |-> 0, sel_fail |-> 0]

\* SICARRobot.__init__, lines 53-70, for a robot nobody has used yet
RobotIdle ==
    /\ rcfg = [cb |-> 0, dev_mode |-> FALSE]
    /\ rN = 0
    /\ rdriver = "none"
    /\ rstage = 0
    /\ rpc = "none"
    /\ rhist = <<>>
    /\ rtried = <<>>
    /\ rdiag = NoDiagnostics
    /\ rret = "none"
    /\ rruns = [k \in 1..NStages |-> 0]

\* no cache file, or one without entries
NoCache == [k \in {} |-> 0]

\* no function called yet; SICARRobot.__init__, lines 58-60
CallsIdle ==
    /\ fn = "none"
    /\ arg = <<>>
    /\ ret = <<>>
    /\ log_callback = 0
    /\ diagnostics = <<>>
    /\ driver = "none"
    /\ created = 0
    /\ quits = 0
    /\ clock = 0
    /\ cache = NoCache

Init == DashInit /\ RobotIdle /\ CallsIdle

(* ----------------------- POST /iniciar (valid) ------------------------ *)
\* lines 285-286: the coordinates converted, reset_state()
IniciarReset(s) ==
    /\ s = nreq + 1
    /\ hpc[s] = "none"
    /\ nreq' = s
    /\ kind' = [kind EXCEPT ![s] = "iniciar"]
    /\ app' = reset_state
    /\ hpc' = [hpc EXCEPT ![s] = "h_reset"]
    /\ cancelled' = "no"
    /\ UNCHANGED <<tpc, stage, drv, drvOps, tfail, lastErr, robotVars, callVars>>

\* lines 290-292: thread = Thread(target=buscar_sicar); thread.start()
IniciarStart(s) ==
    /\ kind[s] = "iniciar"
    /\ hpc[s] = "h_reset"
    /\ hpc' = [hpc EXCEPT ![s] = "h_started"]
    /\ tpc' = [tpc EXCEPT ![s] = "t_reset"]
    /\ UNCHANGED <<app, nreq, kind, stage, drv, drvOps, tfail, cancelled, lastErr, robotVars, callVars>>

\* lines 296-319: status 'running', started_at, the steps list, two add_log
\* calls, the success response
IniciarRegister(s) ==
    /\ kind[s] = "iniciar"
    /\ hpc[s] = "h_started"
    /\ app' = add_log([app EXCEPT !.status = "running", !.started_at = TRUE,
                                  !.steps = IniciarSteps], 2)
    /\ hpc' = [hpc EXCEPT ![s] = "returned"]
    /\ UNCHANGED <<nreq, kind, tpc, stage, drv, drvOps, tfail, cancelled, lastErr, robotVars, callVars>>

(* --------------------- POST /sicar/search (valid) --------------------- *)
\* line 573: reset_state()
SicarSearchReset(s) ==
    /\ s = nreq + 1
    /\ hpc[s] = "none"
    /\ nreq' = s
    /\ kind' = [kind EXCEPT ![s] = "sicar"]
    /\ app' = reset_state
    /\ hpc' = [hpc EXCEPT ![s] = "s_reset"]
    /\ cancelled' = "no"
    /\ UNCHANGED <<tpc, stage, drv, drvOps, tfail, lastErr, robotVars, callVars>>

\* lines 586-591: search_id = uuid4(), status 'running', started_at
SicarSearchRegister(s) ==
    /\ kind[s] = "sicar"
    /\ hpc[s] = "s_reset"
    /\ app' = [app EXCEPT !.search_id = s, !.status = "running",
                          !.started_at = TRUE]
    /\ hpc' = [hpc EXCEPT ![s] = "s_registered"]
    /\ UNCHANGED <<nreq, kind, tpc, stage, drv, drvOps, tfail, cancelled, lastErr, robotVars, callVars>>

\* lines 594-603: thread.start(), the response carrying search_id
SicarSearchStart(s) ==
    /\ kind[s] = "sicar"
    /\ hpc[s] = "s_registered"
    /\ hpc' = [hpc EXCEPT ![s] = "returned"]
    /\ tpc' = [tpc EXCEPT ![s] = "t_reset"]
    /\ UNCHANGED <<app, nreq, kind, stage, drv, drvOps, tfail, cancelled, lastErr, robotVars, callVars>>

(* ------------------------- buscar_sicar(lat, lon) --------------------- *)
\* init_sicar_robot, line 756: robot.set_log_callback(log_callback)
init_sicar_robot_callback == LogCallbackParams

\* the message of the Exception buscar_sicar raises when stage k answers
\* False / None (lines 886, 901, 910, 925, 934, 949, 964)
StageFailMsg == <<"Falha ao acessar o portal do SICAR",
                  "Nao foi possivel identificar o estado",
                  "Nao foi possivel selecionar o estado",
                  "Nao foi possivel identificar o municipio",
                  "Nao foi possivel selecionar o municipio",
                  "Nenhuma propriedade encontrada",
                  "Nao foi possivel extrair o mapa">>

\* the stages whose robot method drives the browser
DriverStages == {1, 3, 5, 6, 7}

Op(actor, op) == [by |-> actor, op |-> op]

\* line 850: reset_state()
T_Reset(s) ==
    /\ tpc[s] = "t_reset"
    /\ app' = reset_state
    /\ tpc' = [tpc EXCEPT ![s] = "t_run"]
    /\ UNCHANGED <<nreq, kind, hpc, stage, drv, drvOps, tfail, cancelled, lastErr, robotVars, callVars>>

\* lines 851-861: started_at, status 'running', three add_log calls,
\* update_step('init', 'running')
T_Run(s) ==
    /\ tpc[s] = "t_run"
    /\ app' = update_step(add_log([app EXCEPT !.started_at = TRUE,
                                              !.status = "running"], 3),
                          "init", "running")
    /\ tpc' = [tpc EXCEPT ![s] = "t_init"]
    /\ UNCHANGED <<nreq, kind, hpc, stage, drv, drvOps, tfail, cancelled, lastErr, robotVars, callVars>>

\* robot._setup_webdriver(), called at lines 759 and 1077; SICARRobot defines
\* no such method in utils/sicar_robot.py.  It starts the browser ("ok"),
\* answers False or raises (as the missing attribute does)
setup_webdriver_outcomes == {"ok", "false", "raise"}

\* line 865: robot = init_sicar_robot(): the browser started, or False
\* (add_log, raise Exception, lines 759-762), or an exception
T_Init(s) ==
    /\ tpc[s] = "t_init"
    /\ \E o \in setup_webdriver_outcomes :
          IF o = "ok"
          THEN /\ drv' = [drv EXCEPT ![s] = "live"]
               \* line 766: robot.driver.set_window_size (not headless)
               /\ drvOps' = [drvOps EXCEPT ![s] = {Op(s, "create"), Op(s, "use")}]
               /\ tpc' = [tpc EXCEPT ![s] = "t_setrobot"]
               /\ UNCHANGED <<app, tfail, lastErr>>
          ELSE /\ app' = IF o = "false" THEN add_log(app, 1) ELSE app
               /\ tfail' = [tfail EXCEPT ![s] = "init_" \o o]
               /\ tpc' = [tpc EXCEPT ![s] = "t_outer"]
               /\ UNCHANGED <<drv, drvOps>>
    /\ UNCHANGED <<nreq, kind, hpc, stage, cancelled, lastErr, robotVars, callVars>>

\* lines 866-882: app_state['robot'] = robot, init and browser 'success',
\* access_site 'running', three add_log calls
T_SetRobot(s) ==
    /\ tpc[s] = "t_setrobot"
    /\ app' = add_log(update_step(update_step(update_step(
                  [app EXCEPT !.robot = s],
                  "init", "success"), "browser", "success"),
                  "access_site", "running"), 3)
    /\ stage' = [stage EXCEPT ![s] = 1]
    /\ tpc' = [tpc EXCEPT ![s] = "t_stage"]
    /\ UNCHANGED <<nreq, kind, hpc, drv, drvOps, tfail, cancelled, lastErr, robotVars, callVars>>

\* what lines 888-988 do to app_state after stage k succeeded
AfterStage(a, k) ==
    IF k < NStages
    THEN LET a1 == IF StageDone[k] = "none" THEN a
                   ELSE update_step(update_step(a, StageDone[k], "success"),
                                    StageRunning[k], "running")
         IN  add_log(a1, 2)
    ELSE LET a1 == update_step(update_step(a, "extract", "success"),
                               "finish", "running")
             a2 == [add_log(a1, 1) EXCEPT !.result = "result"]
             a3 == add_log(update_step(a2, "finish", "success"), 1)
         IN  [a3 EXCEPT !.status = "success"]

\* lines 884-988: one stage of the try block: the robot method of stage k,
\* then the step updates, or the raise that leaves the block
T_Stage(s) ==
    /\ tpc[s] = "t_stage"
    /\ \E o \in {"ok", "fail"} :
          LET k   == stage[s]
              out == StageOutcome(init_sicar_robot_callback, o)
          IN  /\ (k \in DriverStages /\ drv[s] # "live") => o = "fail"
              /\ drvOps' = IF out # "raise" /\ k \in DriverStages /\ drv[s] = "live"
                           THEN [drvOps EXCEPT ![s] = @ \cup {Op(s, "use")}]
                           ELSE drvOps
              /\ IF out = "ok"
                 THEN /\ app' = AfterStage(app, k)
                      /\ stage' = [stage EXCEPT ![s] = IF k < NStages THEN k + 1 ELSE k]
                      /\ tpc' = [tpc EXCEPT ![s] =
                                    IF k < NStages THEN "t_stage" ELSE "t_finally"]
                      /\ UNCHANGED tfail
                 ELSE /\ tfail' = [tfail EXCEPT ![s] =
                                     IF out = "raise" THEN "TypeError"
                                     ELSE StageFailMsg[k]]
                      /\ tpc' = [tpc EXCEPT ![s] = "t_except"]
                      /\ UNCHANGED <<app, stage>>
    /\ UNCHANGED <<nreq, kind, hpc, drv, cancelled, lastErr, robotVars, callVars>>

\* lines 990-998: add_log, error = {message, traceback}, status 'error'
T_Except(s) ==
    /\ tpc[s] = "t_except"
    /\ app' = [add_log(app, 1) EXCEPT
                  !.error = error_record(tfail[s]),
                  !.status = "error"]
    /\ lastErr' = s
    /\ tpc' = [tpc EXCEPT ![s] = "t_finally"]
    /\ UNCHANGED <<nreq, kind, hpc, stage, drv, drvOps, tfail, cancelled, robotVars, callVars>>

\* variant: the finally block closing the robot published in app_state
finally_robot_global(s) == IF app.robot # 0 THEN app.robot ELSE s

\* line 1003: the robot the finally block closes is the local variable robot
finally_robot(s) == s

\* lines 1000-1010: if robot and robot.driver: robot.driver.quit(), add_log;
\* finished_at
T_Finally(s) ==
    /\ tpc[s] = "t_finally"
    /\ IF drv[finally_robot(s)] \in {"live", "quit"}
       THEN /\ drv' = [drv EXCEPT ![finally_robot(s)] = "quit"]
            /\ drvOps' = [drvOps EXCEPT ![finally_robot(s)] = @ \cup {Op(s, "quit")}]
            /\ app' = [add_log(app, 1) EXCEPT !.finished_at = TRUE]
       ELSE /\ app' = [app EXCEPT !.finished_at = TRUE]
            /\ UNCHANGED <<drv, drvOps>>
    /\ tpc' = [tpc EXCEPT ![s] = "done"]
    /\ UNCHANGED <<nreq, kind, hpc, stage, tfail, cancelled, lastErr, robotVars, callVars>>

\* variant: only the thread of the most recent request publishes its error
T_Outer_latest(s) ==
    /\ tpc[s] = "t_outer"
    /\ app' = IF s = nreq
              THEN [add_log(app, 1) EXCEPT !.status = "error",
                                           !.error = error_record(tfail[s]),
                                           !.finished_at = TRUE]
              ELSE app
    /\ lastErr' = s
    /\ tpc' = [tpc EXCEPT ![s] = "done"]
    /\ UNCHANGED <<nreq, kind, hpc, stage, drv, drvOps, tfail, cancelled, robotVars, callVars>>

\* lines 1012-1020: the outer except: status 'error', error, add_log, finished_at
T_Outer(s) ==
    /\ tpc[s] = "t_outer"
    /\ app' = [add_log(app, 1) EXCEPT
                  !.status = "error",
                  !.error = error_record(tfail[s]),
                  !.finished_at = TRUE]
    /\ lastErr' = s
    /\ tpc' = [tpc EXCEPT ![s] = "done"]
    /\ UNCHANGED <<nreq, kind, hpc, stage, drv, drvOps, tfail, cancelled, robotVars, callVars>>

(* --------------------------- cancel handlers -------------------------- *)
\* SICARRobot.close() called on the robot of thread r by actor a
close_drv(d, r) == IF d[r] \in {"live", "quit"} THEN [d EXCEPT ![r] = "closed"] ELSE d
close_ops(ops, d, r, a) ==
    IF d[r] \in {"live", "quit"} THEN [ops EXCEPT ![r] = @ \cup {Op(a, "quit")}] ELSE ops

\* cancelar_busca, lines 356-358: every 'running' step becomes 'canceled'
cancel_steps(st) == [i \in DOMAIN st |-> IF st[i] = "running" THEN "canceled" ELSE st[i]]

\* cancelar_busca, lines 352-361: what a processed cancel leaves in app_state
cancelar_effect(a) == add_log([a EXCEPT !.status = "idle",
                                        !.steps = cancel_steps(a.steps),
                                        !.finished_at = TRUE], 1)

\* variant: only an idle dashboard refuses the cancel
cancel_refused_idle(status) == status = "idle"

\* cancelar_busca, line 339: if app_state['status'] != 'running'
cancel_refused(status) == status # "running"

\* POST /cancelar while status is 'running' (lines 345-366)
Cancelar ==
    /\ ~cancel_refused(app.status)
    /\ drv' = IF app.robot # 0 THEN close_drv(drv, app.robot) ELSE drv
    /\ drvOps' = IF app.robot # 0
                 THEN close_ops(drvOps, drv, app.robot, CancelHandler) ELSE drvOps
    /\ app' = cancelar_effect(app)
    /\ cancelled' = "cancelar"
    /\ UNCHANGED <<nreq, kind, hpc, tpc, stage, tfail, lastErr, robotVars, callVars>>

\* POST /sicar/cancel/<id> with the id that /sicar/search returned, while
\* app_state holds that id and status is 'running' (lines 638-652)
SicarCancel(id) ==
    /\ kind[id] = "sicar"
    /\ hpc[id] = "returned"
    /\ app.search_id = id
    /\ app.status = "running"
    /\ app' = add_log([app EXCEPT !.status = "canceled"], 1)
    /\ cancelled' = "sicar"
    /\ UNCHANGED <<nreq, kind, hpc, tpc, stage, drv, drvOps, tfail, lastErr, robotVars, callVars>>

\* GET /sicar/status/<id>, lines 617-621: 404 unless app_state holds the id
sicar_status(id) == IF app.search_id # id THEN 404 ELSE 200

(* ------------------------------- Spec --------------------------------- *)
Next ==
    \/ \E s \in Searches :
          \/ IniciarReset(s) \/ IniciarStart(s) \/ IniciarRegister(s)
          \/ SicarSearchReset(s) \/ SicarSearchRegister(s) \/ SicarSearchStart(s)
          \/ T_Reset(s) \/ T_Run(s) \/ T_Init(s) \/ T_SetRobot(s)
          \/ T_Stage(s) \/ T_Except(s) \/ T_Finally(s) \/ T_Outer(s)
          \/ SicarCancel(s)
    \/ Cancelar

Spec == Init /\ [][Next]_vars

(* =========================== the robot pipeline ======================= *)
\* SpecRobot: one SICARRobot driven through the pipeline the way buscar_sicar
\* (lines 885-961), sicar_run (lines 1085-1148) and the module's own example
\* drive it; close() may be called on it meanwhile (POST /cancelar).

\* the robots the program builds: init_sicar_robot installs log_callback and
\* takes dev_mode from SICAR_DEV_MODE; sicar_run and the example install none
RobotConfigs ==
    {[cb |-> LogCallbackParams, dev_mode |-> TRUE],
     [cb |-> LogCallbackParams, dev_mode |-> FALSE],
     [cb |-> 0, dev_mode |-> FALSE],
     [cb |-> 0, dev_mode |-> TRUE]}

RobotInit ==
    /\ DashInit
    /\ CallsIdle
    /\ rcfg \in RobotConfigs
    /\ rN \in 0..MaxAttempts
    /\ rdriver = "live"
    /\ rstage = 1
    /\ rpc = "call"
    /\ rhist = <<>>
    /\ rtried = <<>>
    /\ rdiag = NoDiagnostics
    /\ rret = "none"
    /\ rruns = [k \in 1..NStages |-> 0]

Started(k) == [rruns EXCEPT ![k] = @ + 1]

\* SICARRobot.close(): if self.driver: quit, self.driver = None
close ==
    /\ rpc \in {"call", "acc_loop", "sel_lista", "sel_mapa"}
    /\ rdriver = "live"
    /\ rdriver' = "none"
    /\ UNCHANGED <<rcfg, rN, rstage, rpc, rhist, rtried, rdiag, rret, rruns, dashVars, callVars>>

(* ----------------------- acessar_sicar(max_attempts) ------------------ *)
\* line 339: _update_status before the loop and outside every try block
acessar_sicar_enter ==
    /\ rpc = "call" /\ rstage = 1
    /\ rruns' = Started(1)
    /\ rhist' = <<>>
    /\ IF update_status_raises(rcfg.cb)
       THEN rret' = "raise" /\ rpc' = "end"
       ELSE rret' = rret /\ rpc' = "acc_loop"
    /\ UNCHANGED <<rcfg, rN, rdriver, rstage, rtried, rdiag, dashVars, callVars>>

\* variant: a loop that runs once more than max_attempts
range_inclusive(attempt, max_attempts) == attempt <= max_attempts

\* line 341: for attempt in range(max_attempts)
range_continues(attempt, max_attempts) == attempt < max_attempts

\* lines 374-406: the attempt returns True when any identifier matches, when
\* the link navigation reaches the portal, or, in dev_mode, unconditionally
attempt_succeeds(o, dev_mode) ==
    o \in {"recognised", "link"} \/ (o = "unrecognised" /\ dev_mode)

\* lines 342-414: one iteration; an exception (a driver that is None
\* included) is caught and the loop goes on
acessar_sicar_attempt ==
    /\ rpc = "acc_loop"
    /\ range_continues(Len(rhist), rN)
    /\ \E o \in {"recognised", "link", "unrecognised", "raise"} :
          /\ rdriver = "none" => o = "raise"
          /\ rhist' = Append(rhist, o)
          /\ IF attempt_succeeds(o, rcfg.dev_mode)
             THEN /\ rdiag' = [rdiag EXCEPT !.open_ok = @ + 1]
                  /\ rret' = "True"
                  /\ rstage' = 2
                  /\ rpc' = "call"
             ELSE UNCHANGED <<rdiag, rret, rstage, rpc>>
    /\ UNCHANGED <<rcfg, rN, rdriver, rtried, rruns, dashVars, callVars>>

\* lines 418-420: after the loop, one failed 'open_sicar' diagnostic, False;
\* the caller gives up
acessar_sicar_giveup ==
    /\ rpc = "acc_loop"
    /\ ~range_continues(Len(rhist), rN)
    /\ rdiag' = [rdiag EXCEPT !.open_fail = @ + 1]
    /\ rret' = "False"
    /\ rpc' = "end"
    /\ UNCHANGED <<rcfg, rN, rdriver, rstage, rhist, rtried, rruns, dashVars, callVars>>

(* --------------- identificar_estado, identificar_municipio ------------ *)
\* lines 2000-2063 and 2076-2133: _update_status in the try block and again
\* in the except handler; the answer is a name or None (a web service is
\* asked, not the driver)
identificar(k) ==
    /\ rpc = "call" /\ rstage = k
    /\ rruns' = Started(k)
    /\ \E o \in {"value", "None"} :
          LET out == IF update_status_raises(rcfg.cb) THEN "raise" ELSE o
          IN  /\ rret' = out
              /\ IF out = "value"
                 THEN rstage' = k + 1 /\ rpc' = "call"
                 ELSE rstage' = rstage /\ rpc' = "end"
    /\ UNCHANGED <<rcfg, rN, rdriver, rhist, rtried, rdiag, dashVars, callVars>>

identificar_estado == identificar(2)

identificar_municipio == identificar(4)

(* ------------------ selecionar_estado (line 2135) --------------------- *)
\* line 23 binds the name unidecode to the function of that module, which has
\* no attribute 'unidecode'
UnidecodeHasUnidecode == FALSE

\* _selecionar_estado_mapa on page m, the JavaScript injection answering j:
\* line 2263 evaluates unidecode.unidecode(...); without coordinates or map
\* elements False is returned (lines 2273-2283); every element raises on
\* mapa_rect['x'] (line 2303, caught at 2336), and line 2342 then returns
\* what _selecionar_estado_javascript answers
selecionar_estado_mapa_result(m, j) ==
    IF ~UnidecodeHasUnidecode THEN [ret |-> FALSE, js |-> FALSE]
    ELSE IF m \in {"no_coords", "no_map"} THEN [ret |-> FALSE, js |-> FALSE]
    ELSE [ret |-> j, js |-> TRUE]

SelectedState ==
    /\ rdiag' = [rdiag EXCEPT !.sel_ok = @ + 1]
    /\ rret' = "True"
    /\ rstage' = 4
    /\ rpc' = "call"

\* lines 2145-2155: _update_status, then _selecionar_estado_dropdown; the
\* except handler (lines 2170-2173) calls _update_status again
selecionar_estado_dropdown ==
    /\ rpc = "call" /\ rstage = 3
    /\ rruns' = Started(3)
    /\ IF update_status_raises(rcfg.cb)
       THEN /\ rret' = "raise" /\ rpc' = "end" /\ rtried' = <<>>
            /\ UNCHANGED <<rdiag, rstage>>
       ELSE /\ rtried' = <<"dropdown">>
            /\ \E o \in BOOLEAN :
                  /\ rdriver = "none" => ~o
                  /\ IF o THEN SelectedState
                     ELSE rpc' = "sel_lista" /\ UNCHANGED <<rdiag, rret, rstage>>
    /\ UNCHANGED <<rcfg, rN, rdriver, rhist, dashVars, callVars>>

\* lines 2158-2159: _selecionar_estado_lista
selecionar_estado_lista ==
    /\ rpc = "sel_lista"
    /\ rtried' = Append(rtried, "lista")
    /\ \E o \in BOOLEAN :
          /\ rdriver = "none" => ~o
          /\ IF o THEN SelectedState
             ELSE rpc' = "sel_mapa" /\ UNCHANGED <<rdiag, rret, rstage>>
    /\ UNCHANGED <<rcfg, rN, rdriver, rhist, rruns, dashVars, callVars>>

\* lines 2162-2168: _selecionar_estado_mapa (which ends in the JavaScript
\* injection), then the failed 'select_state' diagnostic and False
selecionar_estado_mapa ==
    /\ rpc = "sel_mapa"
    /\ \E m \in {"no_coords", "no_map", "map"}, j \in BOOLEAN :
          LET res == selecionar_estado_mapa_result(m, j)
          IN  /\ rdriver = "none" => m = "no_map"
              /\ rtried' = rtried \o <<"mapa">> \o
                              (IF res.js THEN <<"javascript">> ELSE <<>>)
              /\ IF res.ret THEN SelectedState
                 ELSE /\ rdiag' = [rdiag EXCEPT !.sel_fail = @ + 1]
                      /\ rret' = "False"
                      /\ rpc' = "end"
                      /\ UNCHANGED rstage
    /\ UNCHANGED <<rcfg, rN, rdriver, rhist, rruns, dashVars, callVars>>

(* ------------------------- selecionar_municipio ----------------------- *)
\* lines 970-1233: add_diagnostic in the try block and again in the except
\* handler; True or False
selecionar_municipio ==
    /\ rpc = "call" /\ rstage = 5
    /\ rruns' = Started(5)
    /\ \E o \in BOOLEAN :
          LET out == IF add_diagnostic_raises(rcfg.cb) THEN "raise"
                     ELSE IF o /\ rdriver = "live" THEN "True" ELSE "False"
          IN  /\ rret' = out
              /\ IF out = "True"
                 THEN rstage' = 6 /\ rpc' = "call"
                 ELSE rstage' = rstage /\ rpc' = "end"
    /\ UNCHANGED <<rcfg, rN, rdriver, rhist, rtried, rdiag, dashVars, callVars>>

(* ------------------------- buscar_propriedade ------------------------- *)
\* the diagnostics the inner acessar_sicar and selecionar_estado leave when
\* the inner pipeline got to method d and ok tells whether method d succeeded
InnerDiagnostics(dg, d, ok) ==
    LET g1 == IF d = 1 /\ ~ok THEN [dg EXCEPT !.open_fail = @ + 1]
              ELSE [dg EXCEPT !.open_ok = @ + 1]
    IN  IF d < 3 THEN g1
        ELSE IF d = 3 /\ ~ok THEN [g1 EXCEPT !.sel_fail = @ + 1]
        ELSE [g1 EXCEPT !.sel_ok = @ + 1]

\* the methods started by an inner pipeline that got to method d; the
\* sixth, buscar_propriedade_por_coordenada, belongs to this very stage
InnerStarted(rr, d) ==
    [k \in 1..NStages |-> IF k <= d /\ k # 6 THEN rr[k] + 1 ELSE rr[k]]

\* lines 1624-1698: buscar_propriedade starts the driver when there is none
\* and runs the whole pipeline itself: acessar_sicar, identificar_estado,
\* selecionar_estado, identificar_municipio, selecionar_municipio,
\* buscar_propriedade_por_coordenada, extrair_mapa; None as soon as one of
\* them fails or raises.  The except handler calls _update_status again.
buscar_propriedade ==
    /\ rpc = "call" /\ rstage = 6
    /\ IF update_status_raises(rcfg.cb)
       THEN /\ rret' = "raise" /\ rpc' = "end"
            /\ rruns' = Started(6)
            /\ UNCHANGED <<rdriver, rdiag, rstage>>
       ELSE \E d \in 0..NStages, ok \in BOOLEAN :
               \* d = 0: _inicializar_driver failed
               /\ d = 0 => (rdriver = "none" /\ ~ok)
               /\ ok => d = NStages
               /\ rdriver' = IF d = 0 THEN rdriver ELSE "live"
               /\ rruns' = InnerStarted(Started(6), d)
               /\ rdiag' = IF d = 0 THEN rdiag ELSE InnerDiagnostics(rdiag, d, ok)
               /\ IF ok THEN rret' = "value" /\ rstage' = 7 /\ rpc' = "call"
                  ELSE rret' = "None" /\ rpc' = "end" /\ UNCHANGED rstage
    /\ UNCHANGED <<rcfg, rN, rhist, rtried, dashVars, callVars>>

(* ----------------------------- extrair_mapa --------------------------- *)
\* robot.extrair_mapa(propriedade), called at lines 961 and 1148 of
\* dev_sicar.py; SICARRobot defines no such method in utils/sicar_robot.py.
\* It gives a map, nothing, or raises (as the missing attribute does)
extrair_mapa_outcomes == {"value", "None", "raise"}

extrair_mapa ==
    /\ rpc = "call" /\ rstage = 7
    /\ rruns' = Started(7)
    /\ \E o \in extrair_mapa_outcomes : rret' = o
    /\ rpc' = "end"
    /\ UNCHANGED <<rcfg, rN, rdriver, rstage, rhist, rtried, rdiag, dashVars, callVars>>

RobotNext ==
    \/ acessar_sicar_enter \/ acessar_sicar_attempt \/ acessar_sicar_giveup
    \/ identificar_estado \/ selecionar_estado_dropdown
    \/ selecionar_estado_lista \/ selecionar_estado_mapa
    \/ identificar_municipio \/ selecionar_municipio
    \/ buscar_propriedade \/ extrair_mapa
    \/ close

SpecRobot == RobotInit /\ [][RobotNext]_vars

(* ========================= functions and handlers ===================== *)
\* SpecCalls: each action calls one function with an input drawn from a
\* bounded set and records the function, the input and the answer. The
\* answer of such a function does not depend on earlier calls, so every
\* behaviour makes one call.

\* a text is a sequence of characters; a character is a letter (or blank)
\* that may be lower case and may carry an accent
Ch(l, lw, ac) == [l |-> l, lower |-> lw, accent |-> ac]

\* str.upper()
upper(s) == [i \in 1..Len(s) |-> [s[i] EXCEPT !.lower = FALSE]]

\* unidecode(s): the accents removed
unidecode(s) == [i \in 1..Len(s) |-> [s[i] EXCEPT !.accent = FALSE]]

\* a text of plain capital letters
Plain(w) == [i \in 1..Len(w) |-> Ch(w[i], FALSE, FALSE)]

\* a in b (Python substring test)
contains(a, b) ==
    \E i \in 0..(Len(b) - Len(a)) : SubSeq(b, i + 1, i + Len(a)) = a

(* --------------------- _mapear_estado_para_sigla ---------------------- *)
\* lines 1287-1315: mapa_estados, in the order of the dictionary literal
mapa_estados == <<
    [nome |-> <<"A", "C", "R", "E">>,
     sigla |-> <<"A", "C">>],
    [nome |-> <<"A", "L", "A", "G", "O", "A", "S">>,
     sigla |-> <<"A", "L">>],
    [nome |-> <<"A", "M", "A", "P", "A">>,
     sigla |-> <<"A", "P">>],
    [nome |-> <<"A", "M", "A", "Z", "O", "N", "A", "S">>,
     sigla |-> <<"A", "M">>],
    [nome |-> <<"B", "A", "H", "I", "A">>,
     sigla |-> <<"B", "A">>],
    [nome |-> <<"C", "E", "A", "R", "A">>,
     sigla |-> <<"C", "E">>],
    [nome |-> <<"D", "I", "S", "T", "R", "I", "T", "O", " ", "F", "E", "D", "E", "R", "A", "L">>,
     sigla |-> <<"D", "F">>],
    [nome |-> <<"E", "S", "P", "I", "R", "I", "T", "O", " ", "S", "A", "N", "T", "O">>,
     sigla |-> <<"E", "S">>],
    [nome |-> <<"G", "O", "I", "A", "S">>,
     sigla |-> <<"G", "O">>],
    [nome |-> <<"M", "A", "R", "A", "N", "H", "A", "O">>,
     sigla |-> <<"M", "A">>],
    [nome |-> <<"M", "A", "T", "O", " ", "G", "R", "O", "S", "S", "O">>,
     sigla |-> <<"M", "T">>],
    [nome |-> <<"M", "A", "T", "O", " ", "G", "R", "O", "S", "S", "O", " ", "D", "O", " ", "S", "U", "L">>,
     sigla |-> <<"M", "S">>],
    [nome |-> <<"M", "I", "N", "A", "S", " ", "G", "E", "R", "A", "I", "S">>,
     sigla |-> <<"M", "G">>],
    [nome |-> <<"P", "A", "R", "A">>,
     sigla |-> <<"P", "A">>],
    [nome |-> <<"P", "A", "R", "A", "I", "B", "A">>,
     sigla |-> <<"P", "B">>],
    [nome |-> <<"P", "A", "R", "A", "N", "A">>,
     sigla |-> <<"P", "R">>],
    [nome |-> <<"P", "E", "R", "N", "A", "M", "B", "U", "C", "O">>,
     sigla |-> <<"P", "E">>],
    [nome |-> <<"P", "I", "A", "U", "I">>,
     sigla |-> <<"P", "I">>],
    [nome |-> <<"R", "I", "O", " ", "D", "E", " ", "J", "A", "N", "E", "I", "R", "O">>,
     sigla |-> <<"R", "J">>],
    [nome |-> <<"R", "I", "O", " ", "G", "R", "A", "N", "D", "E", " ", "D", "O", " ", "N", "O", "R", "T", "E">>,
     sigla |-> <<"R", "N">>],
    [nome |-> <<"R", "I", "O", " ", "G", "R", "A", "N", "D", "E", " ", "D", "O", " ", "S", "U", "L">>,
     sigla |-> <<"R", "S">>],
    [nome |-> <<"R", "O", "N", "D", "O", "N", "I", "A">>,
     sigla |-> <<"R", "O">>],
    [nome |-> <<"R", "O", "R", "A", "I", "M", "A">>,
     sigla |-> <<"R", "R">>],
    [nome |-> <<"S", "A", "N", "T", "A", " ", "C", "A", "T", "A", "R", "I", "N", "A">>,
     sigla |-> <<"S", "C">>],
    [nome |-> <<"S", "A", "O", " ", "P", "A", "U", "L", "O">>,
     sigla |-> <<"S", "P">>],
    [nome |-> <<"S", "E", "R", "G", "I", "P", "E">>,
     sigla |-> <<"S", "E">>],
    [nome |-> <<"T", "O", "C", "A", "N", "T", "I", "N", "S">>,
     sigla |-> <<"T", "O">>] >>

\* the positions at which the name of unit k is written with an accent
\* (AMAPÁ, CEARÁ, ESPÍRITO SANTO, GOIÁS, MARANHÃO, PARÁ, PARAÍBA, PARANÁ,
\* PIAUÍ, RONDÔNIA, SÃO PAULO)
AccentAt == <<{}, {}, {5}, {}, {}, {5}, {}, {4}, {4}, {7}, {}, {}, {}, {4}, {5}, {6}, {}, {5}, {}, {}, {}, {5}, {}, {}, {2}, {}, {}>>

\* variant: the substring test with its operands exchanged
contains_reversed(a, b) == contains(b, a)

\* line 1322: elif estado_norm in nome
estado_in_nome(a, b) == contains(a, b)

\* lines 1285-1329: the first entry, in dictionary order, that equals the
\* normalised text or its sigla or contains it; else the text itself when
\* it has two characters; else its first two characters
mapear_estado_para_sigla(estado) ==
    LET estado_norm == unidecode(upper(estado))
        hits == {k \in 1..Len(mapa_estados) :
                    \/ estado_norm = Plain(mapa_estados[k].nome)
                    \/ estado_norm = Plain(mapa_estados[k].sigla)
                    \/ estado_in_nome(estado_norm, Plain(mapa_estados[k].nome))}
    IN  IF hits # {}
        THEN Plain(mapa_estados[CHOOSE k \in hits : \A j \in hits : k <= j].sigla)
        ELSE IF Len(estado_norm) = 2 THEN estado_norm
        ELSE SubSeq(estado_norm, 1, IF Len(estado_norm) < 2 THEN Len(estado_norm) ELSE 2)

\* the name of unit k written in lower case (lw) and with its accents (ac)
EstadoWritten(k, lw, ac) ==
    [i \in 1..Len(mapa_estados[k].nome) |->
        Ch(mapa_estados[k].nome[i], lw, ac /\ i \in AccentAt[k])]

\* the sigla of unit k with its first letter in lower case (l1) and its
\* second one (l2)
SiglaWritten(k, l1, l2) ==
    <<Ch(mapa_estados[k].sigla[1], l1, FALSE), Ch(mapa_estados[k].sigla[2], l2, FALSE)>>

\* the inputs: every unit name in every letter case, with and without
\* accents (k tells the unit), every sigla in every letter case, and texts
\* that name no unit
EstadoInputs ==
    {[k |-> k, s |-> EstadoWritten(k, lw, ac)] :
        k \in 1..Len(mapa_estados), lw \in BOOLEAN, ac \in BOOLEAN}
    \cup {[k |-> 0, s |-> SiglaWritten(k, l1, l2)] :
            k \in 1..Len(mapa_estados), l1 \in BOOLEAN, l2 \in BOOLEAN}
    \cup {[k |-> 0, s |-> Plain(w)] :
            w \in {<<>>, <<"X">>, <<"X", "Y">>, <<"B", "R", "A", "S", "I", "L">>}}

Call_mapear_estado_para_sigla ==
    /\ fn = "none"
    /\ \E e \in EstadoInputs :
          /\ fn' = "_mapear_estado_para_sigla"
          /\ arg' = e
          /\ ret' = [sigla |-> mapear_estado_para_sigla(e.s)]
    /\ UNCHANGED <<dashVars, robotVars, objVars>>

(* -------------------- SICARConnector.search_property ------------------ *)
\* coordinates are numbers of millionths of a degree
Deg(n) == n * 1000000

\* sicar_connector.py lines 148, 191: the test coordinate and its tolerance
TestLat == -23276064
TestLon == -53266292
ConnectorTolerance == 100000

Abs(n) == IF n < 0 THEN -n ELSE n

\* sicar_connector.py lines 23-31
STATES ==
    [c \in {"AC", "AL", "AP", "AM", "BA", "CE", "DF", "ES", "GO", "MA", "MT", "MS",
            "MG", "PA", "PB", "PR", "PE", "PI", "RJ", "RN", "RS", "RO", "RR", "SC",
            "SP", "SE", "TO"} |->
        CASE c = "AC" -> "Acre" [] c = "AL" -> "Alagoas" [] c = "AP" -> "Amapá"
          [] c = "AM" -> "Amazonas" [] c = "BA" -> "Bahia" [] c = "CE" -> "Ceará"
          [] c = "DF" -> "Distrito Federal" [] c = "ES" -> "Espírito Santo"
          [] c = "GO" -> "Goiás" [] c = "MA" -> "Maranhão" [] c = "MT" -> "Mato Grosso"
          [] c = "MS" -> "Mato Grosso do Sul" [] c = "MG" -> "Minas Gerais"
          [] c = "PA" -> "Pará" [] c = "PB" -> "Paraíba" [] c = "PR" -> "Paraná"
          [] c = "PE" -> "Pernambuco" [] c = "PI" -> "Piauí" [] c = "RJ" -> "Rio de Janeiro"
          [] c = "RN" -> "Rio Grande do Norte" [] c = "RS" -> "Rio Grande do Sul"
          [] c = "RO" -> "Rondônia" [] c = "RR" -> "Roraima" [] c = "SC" -> "Santa Catarina"
          [] c = "SP" -> "São Paulo" [] c = "SE" -> "Sergipe" [] c = "TO" -> "Tocantins"]

\* variant: the tolerance of the robot's identificar_estado (0.001 degree)
is_test_coordinate_narrow(lat, lng) ==
    Abs(lat - TestLat) < 1000 /\ Abs(lng - TestLon) < 1000

\* lines 148 and 191: abs(lat - (-23.276064)) < 0.1 and abs(lng - (-53.266292)) < 0.1
is_test_coordinate(lat, lng) ==
    Abs(lat - TestLat) < ConnectorTolerance /\ Abs(lng - TestLon) < ConnectorTolerance

\* find_state_and_municipality, lines 126-168
find_state_and_municipality(lat, lng) ==
    IF is_test_coordinate(lat, lng) THEN <<"PR", "Paraná", "Douradina">>
    ELSE IF Deg(-12) > lat /\ lat > Deg(-18) /\ Deg(-38) > lng /\ lng > Deg(-44)
         THEN <<"BA", "Bahia", "Salvador">>
    ELSE IF Deg(-22) > lat /\ lat > Deg(-33) /\ Deg(-48) > lng /\ lng > Deg(-58)
         THEN <<"RS", "Rio Grande do Sul", "Porto Alegre">>
    ELSE IF Deg(-15) > lat /\ lat > Deg(-25) /\ Deg(-40) > lng /\ lng > Deg(-48)
         THEN <<"SP", "São Paulo", "São Paulo">>
    ELSE IF Deg(-10) > lat /\ lat > Deg(-20) /\ Deg(-45) > lng /\ lng > Deg(-60)
         THEN <<"MT", "Mato Grosso", "Cuiabá">>
    ELSE IF Deg(5) > lat /\ lat > Deg(-10) /\ Deg(-50) > lng /\ lng > Deg(-70)
         THEN <<"PA", "Pará", "Belém">>
    ELSE <<"PR", "Paraná", "Douradina">>

\* normalize_coordinates, lines 99-124: a 2-tuple is returned as it is, a
\* Google Maps URL and a text yield their first two decimal numbers, and a
\* text with fewer than two decimal numbers raises ValueError
normalize_coordinates(coordinates) ==
    IF coordinates.kind \in {"tuple", "maps_url", "text"}
    THEN [raises |-> "None", lat |-> coordinates.lat, lng |-> coordinates.lng]
    ELSE [raises |-> "ValueError"]

\* search_property, lines 170-214 (the record without its area)
search_property(coordinates) ==
    LET n == normalize_coordinates(coordinates)
    IN  IF n.raises # "None" THEN [raises |-> n.raises]
        ELSE LET lat == n.lat
                 lng == n.lng
                 f == find_state_and_municipality(lat, lng)
             IN  IF is_test_coordinate(lat, lng)
                 THEN [found |-> TRUE, state |-> f[1], state_name |-> f[2],
                       municipality |-> f[3],
                       property_name |-> <<"Fazenda Santa Maria">>,
                       car_code |-> <<"PR-4107207-79A269BEFA1443F9B06F8B7470D9F239">>,
                       coordinates |-> <<lat, lng>>, has_map |-> TRUE]
                 ELSE [found |-> TRUE, state |-> f[1], state_name |-> f[2],
                       municipality |-> f[3],
                       property_name |-> <<"Propriedade em ", f[3]>>,
                       car_code |-> <<f[1], "-SIMULADO-", Abs(lat) \div 1000,
                                      Abs(lng) \div 1000>>,
                       coordinates |-> <<lat, lng>>, has_map |-> TRUE]

\* the offsets from the test coordinate that are tried: on it, just inside,
\* on and just outside the tolerance
NearOffsets == {0, 99999, -99999, 100000, -100000, 100001, -100001}

ConnectorLats ==
    {TestLat + d : d \in NearOffsets}
    \cup {Deg(n) : n \in {-40, -33, -30, -25, -22, -20, -18, -15, -12, -10, 0, 5, 10}}

ConnectorLngs ==
    {TestLon + d : d \in NearOffsets}
    \cup {Deg(n) : n \in {-80, -70, -60, -58, -50, -48, -45, -44, -40, -38, 0}}

ConnectorInputs ==
    [kind : {"tuple", "maps_url", "text"}, lat : ConnectorLats, lng : ConnectorLngs]
    \cup {[kind |-> "no_numbers", lat |-> 0, lng |-> 0]}

Call_search_property ==
    /\ fn = "none"
    /\ \E c \in ConnectorInputs :
          /\ fn' = "search_property"
          /\ arg' = c
          /\ ret' = search_property(c)
    /\ UNCHANGED <<dashVars, robotVars, objVars>>

(* ------------------- LocationManager.get_coordinates ------------------ *)
\* an input text is a sequence of pieces: a run of digits, one of the
\* characters - . , @ / ; and blank, or a run of other characters
DigitRuns == {"0", "5", "15", "23", "53", "266", "276"}

\* int(run), and the run read as a fraction in thousandths
IntOf(d) ==
    CASE d = "0" -> 0 [] d = "5" -> 5 [] d = "15" -> 15 [] d = "23" -> 23
      [] d = "53" -> 53 [] d = "266" -> 266 [] d = "276" -> 276
FracOf(d) ==
    CASE d = "0" -> 0 [] d = "5" -> 500 [] d = "15" -> 150 [] d = "23" -> 230
      [] d = "53" -> 530 [] d = "266" -> 266 [] d = "276" -> 276

\* where a number written [-]digits[.[digits]] and starting at piece i ends
\* (0: no number starts there); need_frac: the pattern is -?\d+\.\d+
NumEnd(s, i, need_frac) ==
    LET j == IF i <= Len(s) /\ s[i] = "-" THEN i + 1 ELSE i
    IN  IF j > Len(s) \/ s[j] \notin DigitRuns THEN 0
        ELSE IF j + 1 <= Len(s) /\ s[j + 1] = "."
             THEN IF j + 2 <= Len(s) /\ s[j + 2] \in DigitRuns THEN j + 2
                  ELSE IF need_frac THEN 0 ELSE j + 1
             ELSE IF need_frac THEN 0 ELSE j

\* float(text) of the number written in pieces i..e, in thousandths
FloatOf(s, i, e) ==
    LET j == IF s[i] = "-" THEN i + 1 ELSE i
        m == IntOf(s[j]) * 1000 + (IF e >= j + 2 THEN FracOf(s[j + 2]) ELSE 0)
    IN  IF s[i] = "-" THEN -m ELSE m

\* the first piece from i on that is not blank (Len(s) + 1: none)
RECURSIVE SkipSpaces(_, _)
SkipSpaces(s, i) ==
    IF i <= Len(s) /\ s[i] = " " THEN SkipSpaces(s, i + 1) ELSE i

\* str.strip()
strip(s) ==
    LET inked == {i \in 1..Len(s) : s[i] # " "}
    IN  IF inked = {} THEN <<>>
        ELSE SubSeq(s, CHOOSE i \in inked : \A j \in inked : i <= j,
                       CHOOSE i \in inked : \A j \in inked : j <= i)

NoCoordinates == [found |-> FALSE]
Coordinates(lat, lon) == [found |-> TRUE, lat |-> lat, lon |-> lon]

\* variant: the number pattern of the URL patterns, -?\d+\.\d+
coord_pattern_number_with_fraction(s, i) == NumEnd(s, i, TRUE)

\* line 15: the number pattern -?\d+\.?\d* of the decimal format
coord_pattern_number(s, i) == NumEnd(s, i, FALSE)

\* parse_coordinates, lines 20-51, for texts without a degree sign: the
\* whole stripped text is number , blanks number
parse_coordinates(input_str) ==
    LET t == strip(input_str)
        e1 == coord_pattern_number(t, 1)
        k == SkipSpaces(t, e1 + 2)
        e2 == coord_pattern_number(t, k)
    IN  IF /\ e1 # 0
           /\ e1 + 1 <= Len(t)
           /\ t[e1 + 1] = ","
           /\ e2 # 0
           /\ e2 = Len(t)
        THEN Coordinates(FloatOf(t, 1, e1), FloatOf(t, k, e2))
        ELSE NoCoordinates

\* a pair number,number (blanks allowed after the comma when spaced) whose
\* first number starts at piece i
PairAt(s, i, spaced) ==
    LET e1 == NumEnd(s, i, TRUE)
        k == IF spaced THEN SkipSpaces(s, e1 + 2) ELSE e1 + 2
        e2 == NumEnd(s, k, TRUE)
    IN  IF e1 # 0 /\ e1 + 1 <= Len(s) /\ s[e1 + 1] = "," /\ e2 # 0
        THEN Coordinates(FloatOf(s, i, e1), FloatOf(s, k, e2))
        ELSE NoCoordinates

\* re.search: the leftmost position of Starts at which a pair is found
SearchPair(s, Starts, off, spaced) ==
    LET hits == {i \in Starts : PairAt(s, i + off, spaced).found}
    IN  IF hits = {} THEN NoCoordinates
        ELSE PairAt(s, (CHOOSE i \in hits : \A j \in hits : i <= j) + off, spaced)

\* extract_from_maps_url, lines 53-156, for a URL without query string,
\* fragment or short-link host: the pattern [/@]number,number of line 69
\* (that of lines 99 and 146 finds nothing the first did not), then the
\* pattern number,\s*number anywhere in the URL (line 150)
extract_from_maps_url(url) ==
    LET direct == SearchPair(url, {i \in 1..Len(url) : url[i] \in {"/", "@"}}, 1, FALSE)
    IN  IF direct.found THEN direct
        ELSE SearchPair(url, 1..Len(url), 0, TRUE)

\* str.lower() of a piece
Lower(x) ==
    CASE x = "CURRENT" -> "current"
      [] x = "HTTPS://WWW.GOOGLE.COM/MAPS" -> "https://www.google.com/maps"
      [] OTHER -> x

\* the pieces in which line 190 finds 'maps'
HasMaps(x) == x = "https://www.google.com/maps"

\* get_current_location, lines 158-166
get_current_location == NoCoordinates

\* get_coordinates, lines 168-200
get_coordinates(location_input) ==
    IF Len(location_input) = 1 /\ Lower(location_input[1]) = "current"
    THEN get_current_location
    ELSE LET coords == parse_coordinates(location_input)
         IN  IF coords.found THEN coords
             ELSE IF \E i \in 1..Len(location_input) : HasMaps(Lower(location_input[i]))
                  THEN extract_from_maps_url(location_input)
                  ELSE NoCoordinates

\* the ways a number is written in the inputs: its pieces w, the number v it
\* denotes in thousandths (0 when it denotes none), whether it is a number
\* at all and whether it has digits after the point
NumberForms ==
    {[w |-> <<"-", "23", ".", "276">>, v |-> -23276, number |-> TRUE, frac |-> TRUE],
     [w |-> <<"-", "53", ".", "266">>, v |-> -53266, number |-> TRUE, frac |-> TRUE],
     [w |-> <<"0", ".", "5">>, v |-> 500, number |-> TRUE, frac |-> TRUE],
     [w |-> <<"23">>, v |-> 23000, number |-> TRUE, frac |-> FALSE],
     [w |-> <<"-", "53", ".">>, v |-> -53000, number |-> TRUE, frac |-> FALSE],
     [w |-> <<".", "5">>, v |-> 0, number |-> FALSE, frac |-> FALSE]}

Separators == {<<",">>, <<",", " ">>, <<" ", ",">>, <<" ">>, <<";">>}

Prefixes ==
    {<<>>, <<" ">>,
     <<"https://www.google.com/maps", "/", "@">>,
     <<"HTTPS://WWW.GOOGLE.COM/MAPS", "/", "place", "/", "Douradina", "/", "@">>,
     <<"https://example.com", "/", "@">>}

Suffixes == {<<>>, <<" ">>, <<",", "15", "z">>}

\* what the input is: a decimal 'lat, lon' text, a Google Maps URL with
\* '@lat,lon', a text of no supported format, or something else
InputKind(p, a, sep, b, x) ==
    IF /\ p \in {<<>>, <<" ">>} /\ x \in {<<>>, <<" ">>}
       /\ a.number /\ b.number /\ sep \in {<<",">>, <<",", " ">>}
    THEN "decimal"
    ELSE IF /\ Len(p) > 1 /\ HasMaps(Lower(p[1]))
            /\ a.frac /\ b.frac /\ sep = <<",">>
    THEN "maps_url"
    ELSE IF \/ sep \in {<<" ">>, <<";">>}
            \/ (Len(p) > 1 /\ ~HasMaps(Lower(p[1])))
    THEN "no_format"
    ELSE "other"

LocationInputs ==
    {[s |-> p \o a.w \o sep \o b.w \o x, kind |-> InputKind(p, a, sep, b, x),
      lat |-> a.v, lon |-> b.v] :
        p \in Prefixes, a \in NumberForms, sep \in Separators, b \in NumberForms,
        x \in Suffixes}
    \cup {[s |-> w, kind |-> "no_format", lat |-> 0, lon |-> 0] :
            w \in {<<>>, <<"current">>, <<"CURRENT">>, <<"Douradina">>,
                   <<"https://www.google.com/maps", "/", "place", "/", "Douradina">>}}

Call_get_coordinates ==
    /\ fn = "none"
    /\ \E i \in LocationInputs :
          /\ fn' = "get_coordinates"
          /\ arg' = i
          /\ ret' = get_coordinates(i.s)
    /\ UNCHANGED <<dashVars, robotVars, objVars>>

(* --------------------------- POST /iniciar ---------------------------- *)
\* what a request carries under one key: nothing, an empty string, the
\* string '0', the JSON number 0, a numeric string, a JSON number, or a
\* string that is no number
CoordKeys == {"lat", "latitude", "lon", "longitude"}
Absent == "absent"
StringValues == {"empty", "str0", "strnum", "text"}
JsonValues == StringValues \cup {"num0", "num"}

\* Python truth of a value: None, '' and 0 are false
Truthy(v) == v \notin {Absent, "empty", "num0"}

\* float(v) returns (it raises ValueError for '' and 'abc', TypeError for None)
Converts(v) == v \in {"str0", "num0", "strnum", "num"}

NoFields == [k \in CoordKeys |-> Absent]

\* lines 229-238 and 244-253: the first truthy value among the sources
first_truthy(vals) ==
    IF \E i \in 1..Len(vals) : Truthy(vals[i])
    THEN vals[CHOOSE i \in 1..Len(vals) :
                  Truthy(vals[i]) /\ \A j \in 1..(i - 1) : ~Truthy(vals[j])]
    ELSE Absent

Response(code, message) == [code |-> code, message |-> message]

\* iniciar_busca, lines 190-331, as far as the answer: req.json is
\* "not_json" (the form is the data), "invalid" (get_json raises) or the
\* fields of the JSON object
iniciar_busca(req) ==
    IF req.json = "invalid" THEN Response(400, "Erro no formato JSON")
    ELSE LET data == IF req.json = "not_json" THEN req.form ELSE req.fields
             lat0 == first_truthy(<<data["lat"], data["latitude"],
                                    req.args["lat"], req.args["latitude"],
                                    req.form["lat"], req.form["latitude"]>>)
             lon0 == first_truthy(<<data["lon"], data["longitude"],
                                    req.args["lon"], req.args["longitude"],
                                    req.form["lon"], req.form["longitude"]>>)
             \* lines 256-263
             again == ~Truthy(lat0) \/ ~Truthy(lon0)
             lat == IF again THEN data["lat"] ELSE lat0
             lon == IF again THEN data["lon"] ELSE lon0
         IN  IF ~Truthy(lat) \/ ~Truthy(lon) THEN Response(400, "Coordenadas não fornecidas")
             ELSE IF ~Converts(lat) \/ ~Converts(lon)
                  THEN Response(400, "Coordenadas inválidas, devem ser numéricas")
             \* lines 286-319: reset_state, the thread, the answer
             ELSE Response(200, "Busca iniciada")

\* one value v under key k
Field(k, v) == [NoFields EXCEPT ![k] = v]
Merge(f, g) == [k \in CoordKeys |-> IF f[k] # Absent THEN f[k] ELSE g[k]]

\* the requests: the latitude under one key of one source, the longitude
\* under one key of one source, either of them possibly nowhere; a JSON
\* request has no form fields, and only a JSON body carries numbers
SourcesOf(js) == IF js = "json" THEN {"json", "args", "none"} ELSE {"args", "form", "none"}
ValuesOf(src) ==
    IF src = "none" THEN {Absent} ELSE IF src = "json" THEN JsonValues ELSE StringValues
Part(src, at, k, v) == IF src = at THEN Field(k, v) ELSE NoFields

CoordinateParts(js, short, long) ==
    {x \in [src : {"json", "args", "form", "none"}, k : {short, long},
            v : JsonValues \cup {Absent}] :
        x.src \in SourcesOf(js) /\ x.v \in ValuesOf(x.src)}

RequestsOf(js) ==
    {[json |-> js,
      fields |-> Merge(Part(la.src, "json", la.k, la.v), Part(lo.src, "json", lo.k, lo.v)),
      args |-> Merge(Part(la.src, "args", la.k, la.v), Part(lo.src, "args", lo.k, lo.v)),
      form |-> Merge(Part(la.src, "form", la.k, la.v), Part(lo.src, "form", lo.k, lo.v))] :
        la \in CoordinateParts(js, "lat", "latitude"),
        lo \in CoordinateParts(js, "lon", "longitude")}

IniciarRequests ==
    RequestsOf("json") \cup RequestsOf("not_json")
    \cup {[json |-> "invalid", fields |-> NoFields, args |-> a, form |-> NoFields] :
            a \in {NoFields, Merge(Field("lat", "strnum"), Field("lon", "strnum"))}}

Call_iniciar_busca ==
    /\ fn = "none"
    /\ \E r \in IniciarRequests :
          /\ fn' = "iniciar_busca"
          /\ arg' = r
          /\ ret' = iniciar_busca(r)
    /\ UNCHANGED <<dashVars, robotVars, objVars>>

(* ----------------------------- GET /status ---------------------------- *)
\* the statuses a step is given: lines 299-306, 358, 703-710, 820
StepStatuses == {"pending", "running", "success", "error", "canceled"}

\* variant: the quotient rounded to the nearest integer
round_quotient(a, b) == (2 * a + b) \div (2 * b)

\* line 174: int(a / b) for a >= 0 and b > 0
int_quotient(a, b) == a \div b

\* get_status, lines 160-188: the progress of the answer
get_status(steps) ==
    IF steps # <<>>
    THEN LET total_steps == Len(steps)
             completed_steps ==
                 Cardinality({i \in 1..Len(steps) : steps[i] \in {"success", "error"}})
             running_steps == Cardinality({i \in 1..Len(steps) : steps[i] = "running"})
         IN  IF total_steps > 0
             THEN [progress |-> int_quotient(completed_steps * 100 + running_steps * 50,
                                             total_steps)]
             ELSE [progress |-> 0]
    ELSE [progress |-> 0]

\* the eight steps of a search (lines 299-306) with a finished, b running,
\* c canceled and the others pending
EightSteps(a, b, c) ==
    [i \in 1..8 |-> IF i <= a THEN (IF i % 2 = 1 THEN "success" ELSE "error")
                    ELSE IF i <= a + b THEN "running"
                    ELSE IF i <= a + b + c THEN "canceled"
                    ELSE "pending"]

\* the lists of steps: every list of up to MaxSteps statuses, and the eight
\* steps of a search in every mix of statuses
StepLists ==
    UNION {[1..n -> StepStatuses] : n \in 0..MaxSteps}
    \cup {EightSteps(a, b, c) : a \in 0..8, b \in 0..8, c \in 0..8}

Call_get_status ==
    /\ fn = "none"
    /\ \E steps \in StepLists :
          /\ fn' = "get_status"
          /\ arg' = [steps |-> steps]
          /\ ret' = get_status(steps)
    /\ UNCHANGED <<dashVars, robotVars, objVars>>

(* ===================== methods of one robot object ==================== *)
\* SpecMethods: the methods are called one after the other on one
\* SICARRobot; clock counts the calls and stands for datetime.now()

\* set_log_callback, lines 72-74
Call_set_log_callback ==
    /\ \E cb \in {0, DiagnosticCallArgs, LogCallbackParams} :
          /\ cb # log_callback
          /\ log_callback' = cb
    /\ UNCHANGED <<fn, arg, ret, diagnostics, driver, created, quits, clock, cache>>
    /\ UNCHANGED <<dashVars, robotVars>>

\* lines 86-91: the record; error_message is str(error_message) when it is
\* truthy and None otherwise
diagnostic(operation, success, error_message, now) ==
    [operation |-> operation,
     success |-> success,
     error_message |-> IF error_message \in {"None", ""} THEN "None" ELSE error_message,
     timestamp |-> now]

\* variant: the newest record first
list_insert_first(list, x) == <<x>> \o list

\* line 92: self.diagnostics.append(diagnostic)
list_append(list, x) == Append(list, x)

\* lines 76-92: the list after add_diagnostic(operation, success, error_message)
add_diagnostic(list, operation, success, error_message, now) ==
    list_append(list, diagnostic(operation, success, error_message, now))

\* lines 1255-1258: the list after _update_status(message, progress, level);
\* the third argument of add_diagnostic is a non-empty dict
update_status(list, level, now) ==
    add_diagnostic(list, "status_update", level # "error", "{message, progress}", now)

\* the arguments add_diagnostic is called with
DiagnosticInputs ==
    [operation : {"access_site"}, success : BOOLEAN, error_message : {"None", "", "Timeout"}]

\* add_diagnostic, lines 76-113: the record is appended before the callback
\* is called; a callback of another arity raises after the append
Call_add_diagnostic ==
    /\ clock < MaxCalls
    /\ \E a \in DiagnosticInputs :
          /\ fn' = "add_diagnostic"
          /\ arg' = a
          /\ diagnostics' = add_diagnostic(diagnostics, a.operation, a.success,
                                           a.error_message, clock + 1)
    /\ ret' = IF add_diagnostic_raises(log_callback) THEN "raise" ELSE "None"
    /\ clock' = clock + 1
    /\ UNCHANGED <<log_callback, driver, created, quits, cache, dashVars, robotVars>>

\* _update_status, lines 1235-1272: add_diagnostic is called outside the try
\* block, the callback call of lines 1261-1272 inside it
Call_update_status ==
    /\ clock < MaxCalls
    /\ \E level \in {"info", "warning", "error", "success"} :
          /\ fn' = "_update_status"
          /\ arg' = [level |-> level]
          /\ diagnostics' = update_status(diagnostics, level, clock + 1)
    /\ ret' = IF update_status_raises(log_callback) THEN "raise" ELSE "None"
    /\ clock' = clock + 1
    /\ UNCHANGED <<log_callback, driver, created, quits, cache, dashVars, robotVars>>

(* -------------------------- _inicializar_driver ----------------------- *)
\* what one pass of the try block (lines 130-262) does: "ok" reaches line
\* 264; "no_driver": the webdriver constructor raises and self.driver stays
\* None; "broken": the driver is constructed and a later call on it raises
AttemptOutcomes == {"ok", "no_driver", "broken"}

\* variant: one pass more than max_tentativas
while_tentativa_inclusive(tentativa) == tentativa <= max_tentativas

\* line 126: while tentativa < max_tentativas
while_tentativa(tentativa) == tentativa < max_tentativas

\* lines 126-281: the loop from the state s on, o[t] the outcome of pass t
RECURSIVE inicializar_loop(_, _)
inicializar_loop(s, o) ==
    IF while_tentativa(s.tentativa)
    THEN LET t == s.tentativa + 1
             \* line 128
             d1 == update_status(s.diagnostics, "info", s.now)
         IN  CASE o[t] = "ok" ->
                    \* lines 264-266
                    [s EXCEPT !.tentativa = t,
                              !.diagnostics =
                                  add_diagnostic(update_status(d1, "info", s.now),
                                                 "initialize_driver", TRUE,
                                                 "Driver inicializado com sucesso", s.now),
                              !.driver = "live",
                              !.created = @ + 1,
                              !.ret = "True"]
               [] o[t] = "no_driver" ->
                    \* lines 268-270; line 272 finds self.driver None
                    inicializar_loop(
                        [s EXCEPT !.tentativa = t,
                                  !.diagnostics =
                                      add_diagnostic(d1, "initialize_driver", FALSE,
                                                     "Erro na tentativa", s.now)], o)
               [] o[t] = "broken" ->
                    \* lines 268-277: quit (its own exception swallowed), None
                    inicializar_loop(
                        [s EXCEPT !.tentativa = t,
                                  !.diagnostics =
                                      add_diagnostic(d1, "initialize_driver", FALSE,
                                                     "Erro na tentativa", s.now),
                                  !.driver = "none",
                                  !.created = @ + 1,
                                  !.quits = @ + 1], o)
    ELSE \* lines 282-284
         [s EXCEPT !.diagnostics =
                       add_diagnostic(update_status(s.diagnostics, "error", s.now),
                                      "initialize_driver", FALSE,
                                      "Falha após múltiplas tentativas", s.now),
                   !.ret = "False"]

\* lines 115-284
inicializar_driver(s, o) ==
    IF s.driver # "none"
    THEN \* lines 119-121
         [s EXCEPT !.diagnostics = update_status(s.diagnostics, "info", s.now),
                   !.ret = "True"]
    ELSE inicializar_loop(s, o)

\* the first pass whose outcome is "ok" (0: none)
first_ok(o) ==
    IF \E t \in DOMAIN o : o[t] = "ok"
    THEN CHOOSE t \in DOMAIN o : o[t] = "ok" /\ \A u \in 1..(t - 1) : o[u] # "ok"
    ELSE 0

\* _inicializar_driver is reached from buscar_propriedade after two
\* _update_status calls have returned (lines 1625-1630) and from the module's
\* own test, which installs no callback (lines 2486-2490): never with a
\* callback that add_diagnostic cannot call
Call_inicializar_driver ==
    /\ clock < MaxCalls
    /\ ~update_status_raises(log_callback)
    /\ \E o \in [1..(max_tentativas + 1) -> AttemptOutcomes] :
          LET s == inicializar_driver(
                       [tentativa |-> 0, diagnostics |-> diagnostics, driver |-> driver,
                        created |-> created, quits |-> quits, now |-> clock + 1,
                        ret |-> "none"], o)
          IN  /\ fn' = "_inicializar_driver"
              /\ arg' = [driver |-> driver, records |-> Len(diagnostics),
                         created |-> created, quits |-> quits,
                         passes |-> s.tentativa, first_ok |-> first_ok(o)]
              /\ ret' = s.ret
              /\ diagnostics' = s.diagnostics
              /\ driver' = s.driver
              /\ created' = s.created
              /\ quits' = s.quits
    /\ clock' = clock + 1
    /\ UNCHANGED <<log_callback, cache, dashVars, robotVars>>

(* ------------------------ identificar_localizacao --------------------- *)
\* here a coordinate is a number of ten-millionths of a degree, so that
\* the sixth decimal is a rounded one

\* lines 1850-1851: f"{x:.6f}", the text of x with 6 decimals: a sign, kept
\* also when the digits are all zero ('-0.000000'), and the digits
Format6(x) == [minus |-> x < 0, digits |-> (Abs(x) + 5) \div 10]

\* line 1854: cache_key = f"{lat_str}_{lon_str}"
cache_key(lat, lon) == <<Format6(lat), Format6(lon)>>

\* variant: the result is not saved
cache_keep(c, key, result) == c

\* lines 1894-1903 and 1958-1967: cache[cache_key] = result, and the file
\* written again
cache_put(c, key, result) ==
    [k \in DOMAIN c \cup {key} |-> IF k = key THEN result ELSE c[k]]

Douradina == [estado |-> "Paraná", municipio |-> "Douradina"]
Macapa == [estado |-> "Amapá", municipio |-> "Macapá"]
NoLocation == [estado |-> "None", municipio |-> "None"]

\* what an API brings: nothing usable (an error, an empty or incomplete
\* answer) or a state and a municipality
ApiLocations == {NoLocation, Douradina, Macapa}

\* identificar_localizacao, lines 1831-1987, with the file system working:
\* the location returned (NoLocation: None), the APIs queried, the cache
\* after the call and the diagnostics after the call
identificar_localizacao(c, list, lat, lon, ibge, nominatim, now) ==
    LET key == cache_key(lat, lon)
        \* lines 1845-1846
        d0 == add_diagnostic(update_status(list, "info", now), "identify_location",
                             TRUE, "Consultando coordenadas", now)
        d1 == update_status(d0, "info", now)
        d2 == update_status(d1, "info", now)
    IN  IF key \in DOMAIN c
        THEN \* lines 1861-1866
             [value |-> c[key], queried |-> {}, cache |-> c, diagnostics |-> d1]
        ELSE IF ibge # NoLocation
        THEN \* lines 1872-1908
             [value |-> ibge, queried |-> {"ibge"},
              cache |-> cache_put(c, key, ibge), diagnostics |-> d2]
        ELSE IF nominatim # NoLocation
        THEN \* lines 1913-1972
             [value |-> nominatim, queried |-> {"ibge", "nominatim"},
              cache |-> cache_put(c, key, nominatim),
              diagnostics |-> update_status(d2, "info", now)]
        ELSE \* lines 1980-1982
             [value |-> NoLocation, queried |-> {"ibge", "nominatim"}, cache |-> c,
              diagnostics |->
                  add_diagnostic(update_status(d2, "error", now), "identify_location",
                                 FALSE, "Localização não identificada", now)]

\* latitudes 0.0000003 degree south and north of the equator, 0.0000004 and
\* 0.0000006 degree north of it and that of the test coordinate;
\* longitudes that differ in the seventh decimal only, and another one
LocalizacaoLats == {-3, 3, 4, 6, -232760640}
LocalizacaoLons == {-532662920, -532662918, -510700000}

\* the method is called by the module's own test only (line 2498), on a
\* robot without callback
Call_identificar_localizacao ==
    /\ clock < MaxCalls
    /\ ~update_status_raises(log_callback)
    /\ \E lat \in LocalizacaoLats, lon \in LocalizacaoLons,
          ibge \in ApiLocations, nominatim \in {NoLocation, Douradina} :
          LET r == identificar_localizacao(cache, diagnostics, lat, lon, ibge,
                                           nominatim, clock + 1)
          IN  /\ fn' = "identificar_localizacao"
              /\ arg' = [lat |-> lat, lon |-> lon, ibge |-> ibge, nominatim |-> nominatim]
              /\ ret' = [value |-> r.value, queried |-> r.queried]
              /\ cache' = r.cache
              /\ diagnostics' = r.diagnostics
    /\ clock' = clock + 1
    /\ UNCHANGED <<log_callback, driver, created, quits, dashVars, robotVars>>

(* ---------------------------- SpecMethods ----------------------------- *)
MethodsInit == DashInit /\ RobotIdle /\ CallsIdle

MethodsNext ==
    \/ Call_set_log_callback
    \/ Call_add_diagnostic
    \/ Call_update_status
    \/ Call_inicializar_driver
    \/ Call_identificar_localizacao

SpecMethods == MethodsInit /\ [][MethodsNext]_vars

(* -------------------------- identificar_estado ------------------------ *)
\* what the request of line 2017 brings: requests.get raises, an HTTP error,
\* an answer without address, an address with an empty state, with a state,
\* with a province, or with a county only
ApiAnswers ==
    {[kind |-> "raises", name |-> ""], [kind |-> "http_500", name |-> ""],
     [kind |-> "no_address", name |-> ""], [kind |-> "state", name |-> ""],
     [kind |-> "state", name |-> "São Paulo"], [kind |-> "state", name |-> "Paraná"],
     [kind |-> "province", name |-> "Paraná"], [kind |-> "county", name |-> "Douradina"]}

\* str.upper() of the names above
Upper(x) ==
    CASE x = "São Paulo" -> "SÃO PAULO" [] x = "Paraná" -> "PARANÁ"
      [] x = "Douradina" -> "DOURADINA" [] OTHER -> x

\* variant: no coordinate is the test coordinate
is_no_coordinate(lat, lon) == FALSE

\* lines 2042 and 2059: abs(float(lat) + 23.276064) < 0.001 and
\* abs(float(lon) + 53.266292) < 0.001
is_test_coordinate_of_robot(lat, lon) ==
    Abs(lat - TestLat) < 1000 /\ Abs(lon - TestLon) < 1000

\* line 2005
outside_brazil(lat, lon) ==
    ~(Deg(-33) < lat /\ lat < Deg(5)) \/ ~(Deg(-73) < lon /\ lon < Deg(-35))

\* identificar_estado, lines 1989-2063, on a robot whose callback, if any,
\* takes the dict of add_diagnostic: what it returns, whether the API was
\* queried, and the levels of its _update_status calls
identificar_estado_result(lat, lon, api) ==
    LET first == <<"info">> \o (IF outside_brazil(lat, lon) THEN <<"warning">> ELSE <<>>)
        \* lines 2027-2036
        estado == IF api.kind \in {"state", "province"} THEN Upper(api.name) ELSE ""
    IN  IF estado # ""
        THEN \* lines 2038-2047
             [estado |-> IF is_test_coordinate_of_robot(lat, lon) THEN "PARANÁ" ELSE estado,
              queried |-> TRUE, levels |-> first \o <<"success">>]
        ELSE \* lines 2048-2063
             [estado |-> IF is_test_coordinate_of_robot(lat, lon) THEN "PARANÁ" ELSE "None",
              queried |-> TRUE,
              levels |-> first \o <<IF api.kind \in {"raises", "http_500"}
                                    THEN "error" ELSE "warning">>]

RECURSIVE update_status_each(_, _, _)
update_status_each(list, levels, now) ==
    IF levels = <<>> THEN list
    ELSE update_status_each(update_status(list, Head(levels), now), Tail(levels), now)

RobotOffsets == {0, 999, -999, 1000, -1000, 1001, -1001}
RobotLats == {TestLat + d : d \in RobotOffsets} \cup {Deg(n) : n \in {-33, -10, 5, 10}}
RobotLons == {TestLon + d : d \in RobotOffsets} \cup {Deg(n) : n \in {-80, -73, -50, -35}}

\* the stage is reached only on a robot whose earlier _update_status calls
\* returned (acessar_sicar, line 339)
Call_identificar_estado ==
    /\ fn = "none"
    /\ ~update_status_raises(log_callback)
    /\ \E lat \in RobotLats, lon \in RobotLons, api \in ApiAnswers :
          LET r == identificar_estado_result(lat, lon, api)
          IN  /\ fn' = "identificar_estado"
              /\ arg' = [lat |-> lat, lon |-> lon, api |-> api]
              /\ ret' = [estado |-> r.estado, queried |-> r.queried]
              /\ diagnostics' = update_status_each(diagnostics, r.levels, clock + 1)
    /\ clock' = clock + 1
    /\ UNCHANGED <<log_callback, driver, created, quits, cache, dashVars, robotVars>>

(* ------------------------------ POST /cancelar ------------------------ *)
\* cancelar_busca, lines 333-366, on the app_state a, d being the driver of
\* the robot a.robot: the answer, and app_state and that driver afterwards
cancelar_busca(a, d) ==
    IF cancel_refused(a.status)
    THEN \* lines 339-343
         [code |-> 400, success |-> FALSE, app |-> a, drv |-> d]
    ELSE \* lines 345-366
         [code |-> 200, success |-> TRUE, app |-> cancelar_effect(a),
          drv |-> IF a.robot # 0 /\ d \in {"live", "quit"} THEN "closed" ELSE d]

\* app_state as buscar_sicar and the handlers leave it: reset; a search at
\* its first stage, its robot published; that search failed, before and
\* after the finally block; a search whose robot could not be made; a
\* search cancelled by either handler
SearchingState ==
    [reset_state EXCEPT !.status = "running", !.logs = "entries", !.started_at = TRUE,
                        !.robot = 1,
                        !.steps = [PendingSteps EXCEPT !["init"] = "success",
                                                       !["browser"] = "success",
                                                       !["access_site"] = "running"]]
StageErrorState ==
    [SearchingState EXCEPT !.status = "error", !.error = error_record("TypeError")]
InitErrorState ==
    [reset_state EXCEPT !.status = "error", !.logs = "entries", !.started_at = TRUE,
                        !.finished_at = TRUE, !.steps["init"] = "running",
                        !.error = error_record("init_raise")]
SicarCanceledState ==
    [reset_state EXCEPT !.status = "canceled", !.logs = "entries", !.started_at = TRUE,
                        !.search_id = 1]

\* app_state and the driver of its robot when POST /cancelar arrives
CancelarStates ==
    {[app |-> reset_state, drv |-> "none"],
     [app |-> SearchingState, drv |-> "live"],
     [app |-> StageErrorState, drv |-> "live"],
     [app |-> [StageErrorState EXCEPT !.finished_at = TRUE], drv |-> "quit"],
     [app |-> InitErrorState, drv |-> "none"],
     [app |-> SicarCanceledState, drv |-> "none"],
     [app |-> cancelar_effect(SearchingState), drv |-> "closed"]}

Call_cancelar_busca ==
    /\ fn = "none"
    /\ \E x \in CancelarStates :
          /\ fn' = "cancelar_busca"
          /\ arg' = x
          /\ ret' = cancelar_busca(x.app, x.drv)
    /\ UNCHANGED <<dashVars, robotVars, objVars>>

(* --------------------------- POST /sicar/search ----------------------- *)
\* sicar_search, lines 568-610, on the form fields latitude and longitude:
\* the answer, app_state afterwards and whether the buscar_sicar thread was
\* started.  float(lat) and float(lon) are evaluated at line 594, after
\* status 'running' was written and before the thread exists
sicar_search(lat, lon) ==
    IF ~Truthy(lat) \/ ~Truthy(lon)
    THEN \* lines 573-584
         [code |-> 400, app |-> reset_state, thread |-> FALSE]
    ELSE LET a == [reset_state EXCEPT !.search_id = 1, !.status = "running",
                                      !.started_at = TRUE]
         IN  IF Converts(lat) /\ Converts(lon)
             THEN \* lines 594-603
                  [code |-> 200, app |-> a, thread |-> TRUE]
             ELSE \* lines 605-610
                  [code |-> 500, app |-> a, thread |-> FALSE]

Call_sicar_search ==
    /\ fn = "none"
    /\ \E lat \in StringValues \cup {Absent}, lon \in StringValues \cup {Absent} :
          /\ fn' = "sicar_search"
          /\ arg' = [latitude |-> lat, longitude |-> lon]
          /\ ret' = sicar_search(lat, lon)
    /\ UNCHANGED <<dashVars, robotVars, objVars>>

(* ------------------------------ sicar_run ----------------------------- *)
\* the message of the answer sicar_run gives when stage k answers False /
\* None (dev_sicar.py lines 1090, 1103, 1113, 1123, 1133, 1143, 1153; the
\* third and the fifth are followed by the name of the state / municipality)
RunFailMsg == <<"Falha ao acessar site do SICAR",
                "Falha ao identificar estado das coordenadas",
                "Falha ao selecionar estado",
                "Falha ao identificar município das coordenadas",
                "Falha ao selecionar município",
                "Falha ao encontrar propriedade nas coordenadas especificadas",
                "Falha ao extrair mapa da propriedade">>

\* sicar_robot.py lines 422-432: close(): if self.driver: quit(), None
robot_close(r) ==
    IF r.driver = "live" THEN [r EXCEPT !.driver = "none", !.quits = @ + 1] ELSE r

\* a JSON value under a key of the body: a number n (whole degrees), a
\* string (s tells which: the text of the number n, 'nan', 'inf', '-inf',
\* a word, the empty string), null, or no such key
JNumber(n) == [t |-> "number", s |-> "", n |-> n]
JString(s) == [t |-> "string", s |-> s, n |-> 0]
JDecimal(n) == [t |-> "string", s |-> "decimal", n |-> n]
JNull == [t |-> "null", s |-> "", n |-> 0]
JAbsent == [t |-> "absent", s |-> "", n |-> 0]

\* a Python float: a finite number of degrees, an infinity (inf: its sign)
\* or nan
Finite(n) == [raises |-> FALSE, nan |-> FALSE, inf |-> 0, n |-> n]
Infinite(sign) == [raises |-> FALSE, nan |-> FALSE, inf |-> sign, n |-> 0]
NaN == [raises |-> FALSE, nan |-> TRUE, inf |-> 0, n |-> 0]
Raises == [raises |-> TRUE, nan |-> FALSE, inf |-> 0, n |-> 0]

\* float(v): a number is itself; a string is parsed, 'nan' and 'inf' being
\* floats too, a word or '' raising ValueError; None raises TypeError
float(v) ==
    CASE v.t = "number" -> Finite(v.n)
      [] v.t = "string" /\ v.s = "decimal" -> Finite(v.n)
      [] v.t = "string" /\ v.s = "nan" -> NaN
      [] v.t = "string" /\ v.s = "inf" -> Infinite(1)
      [] v.t = "string" /\ v.s = "-inf" -> Infinite(-1)
      [] OTHER -> Raises

\* abs(x) > bound and x == 0 on floats: every comparison with nan is False
abs_exceeds(x, bound) == ~x.nan /\ (x.inf # 0 \/ Abs(x.n) > bound)
is_zero(x) == ~x.nan /\ x.inf = 0 /\ x.n = 0

\* dict.get(key, '0'), line 1048: the value, the string '0' without the key
get_or_0(v) == IF v.t = "absent" THEN JDecimal(0) ELSE v

\* lines 1044-1058: the message of the rejection, "" when the request passes;
\* body: "none" (request.json is None), "empty" ({}: falsy), "list" (a
\* non-empty array, whose .get raises into the bare except) or "object"
sicar_run_rejection(req) ==
    IF req.body \in {"none", "empty"} THEN "Parâmetros ausentes"
    ELSE IF req.body = "list" THEN "Formato de coordenadas inválido"
    ELSE LET lat == float(get_or_0(req.lat))
             lon == float(get_or_0(req.lon))
         IN  IF lat.raises \/ lon.raises THEN "Formato de coordenadas inválido"
             ELSE IF abs_exceeds(lat, 90) \/ abs_exceeds(lon, 180)
                  THEN "Coordenadas inválidas"
             ELSE IF is_zero(lat) /\ is_zero(lon) THEN "Coordenadas zeradas"
             ELSE ""

\* dev_sicar.py lines 1040-1197: the answer, whether a SICARRobot was made and
\* its driver; setup is what robot._setup_webdriver() does, k the last
\* stage that ran and o what it answered (the robot has no callback, so its
\* methods answer; extrair_mapa may raise)
sicar_run(req, setup, k, o) ==
    LET r0 == [driver |-> "none", created |-> 0, quits |-> 0]
        answer(success, msg, robot, r) ==
            [success |-> success, msg |-> msg, robot |-> robot, driver |-> r.driver,
             created |-> r.created, quits |-> r.quits]
        r1 == [r0 EXCEPT !.driver = "live", !.created = 1]
        rejection == sicar_run_rejection(req)
    IN  IF rejection # "" THEN answer(FALSE, rejection, FALSE, r0)
        ELSE \* line 1074: robot = SICARRobot(...)
             CASE setup = "false" -> answer(FALSE, "Falha ao iniciar navegador", TRUE, r0)
               [] setup = "raise" ->
                    \* lines 1177-1197
                    answer(FALSE, "Erro durante a execução", TRUE, robot_close(r0))
               [] OTHER ->
                    IF o = "ok"
                    THEN \* lines 1157-1175
                         answer(TRUE, "Propriedade encontrada e mapa extraído com sucesso",
                                TRUE, robot_close(r1))
                    ELSE IF o = "raise"
                    THEN \* lines 1177-1197
                         answer(FALSE, "Erro durante a execução", TRUE, robot_close(r1))
                    ELSE \* lines 1086-1155: save_screenshot and the answer;
                         \* close() is not called
                         answer(FALSE, RunFailMsg[k], TRUE, r1)

\* the values sent as latitude and as longitude
RunStrings == {JString(w) : w \in {"nan", "inf", "-inf", "abc", ""}}
RunLats ==
    {JAbsent, JNull} \cup RunStrings \cup {JNumber(n) : n \in {-91, -90, -23, 0, 90, 91}}
    \cup {JDecimal(n) : n \in {-23, 0, 91}}
RunLons ==
    {JAbsent, JNull} \cup RunStrings \cup {JNumber(n) : n \in {-181, -180, -53, 0, 180, 181}}
    \cup {JDecimal(n) : n \in {-53, 0, 181}}

\* the bodies of POST /sicar/run
RunRequests ==
    {[body |-> b, lat |-> JAbsent, lon |-> JAbsent] : b \in {"none", "empty", "list"}}
    \cup [body : {"object"}, lat : RunLats, lon : RunLons]

\* what happens after the validation: nothing to choose for a rejected body
RunCourses(req) ==
    IF sicar_run_rejection(req) # ""
    THEN {[setup |-> "ok", stage |-> 1, answer |-> "fail"]}
    ELSE {c \in [setup : setup_webdriver_outcomes, stage : 1..NStages,
                 answer : {"ok", "fail", "raise"}] :
             /\ c.answer = "ok" => c.stage = NStages
             /\ c.answer = "raise" => c.stage = NStages /\ "raise" \in extrair_mapa_outcomes}

Call_sicar_run ==
    /\ fn = "none"
    /\ \E req \in RunRequests :
          \E c \in RunCourses(req) :
             LET a == sicar_run(req, c.setup, c.stage, c.answer)
             IN  /\ fn' = "sicar_run"
                 /\ arg' = [req |-> req, setup |-> c.setup, stage |-> c.stage,
                            answer |-> c.answer]
                 /\ ret' = [success |-> a.success, msg |-> a.msg, robot |-> a.robot]
                 /\ driver' = a.driver
                 /\ created' = a.created
                 /\ quits' = a.quits
    /\ UNCHANGED <<log_callback, diagnostics, clock, cache, dashVars, robotVars>>

(* ----------------------------- SpecCalls ------------------------------ *)
CallsInit == DashInit /\ RobotIdle /\ CallsIdle

CallsNext ==
    \/ Call_mapear_estado_para_sigla
    \/ Call_search_property
    \/ Call_get_coordinates
    \/ Call_iniciar_busca
    \/ Call_get_status
    \/ Call_identificar_estado
    \/ Call_sicar_run
    \/ Call_cancelar_busca
    \/ Call_sicar_search

SpecCalls == CallsInit /\ [][CallsNext]_vars

(* ====================== properties of the dashboard =================== *)
\* every search requested so far has returned from its handler and its
\* buscar_sicar thread has ended
AllDone == nreq >= 1 /\ \A s \in 1..nreq : hpc[s] = "returned" /\ tpc[s] = "done"

\* C1: after POST /iniciar was accepted while nothing else was running, status
\* goes from 'idle' to 'running' and is never 'idle' again before the thread of
\* that search ends, unless a cancel is processed (or another search arrives).
C1_StatusStaysRunning ==
    [][ ( /\ nreq >= 1
          /\ kind[nreq] = "iniciar"
          /\ \A r \in 1..(nreq - 1) : tpc[r] = "done"
          /\ tpc[nreq] # "done"
          /\ app.status = "running"
          /\ app'.status = "idle" )
        => (app' = cancelar_effect(app) \/ nreq' # nreq) ]_vars

\* C2: once a cancel was processed for the current search, status shows the
\* cancelled state and no step is 'running', whatever the thread does next.
C2_CancelLeavesNoRunningStep ==
    cancelled # "no" =>
        /\ app.status = (IF cancelled = "cancelar" THEN "idle" ELSE "canceled")
        /\ \A i \in DOMAIN app.steps : app.steps[i] # "running"

\* C3 as stated: every operation on a driver is done by the thread that
\* created it.
C3_OnlyCreatorOperates ==
    \A s \in Searches : \A o \in drvOps[s] : o.by = s

\* C3 amended: a driver is created and used only by the thread that created
\* it; the one operation anybody else performs on it is the quit that the
\* POST /cancelar handler requests through app_state['robot'].close().
C3_OnlyCancelQuitsFromOutside ==
    \A s \in Searches : \A o \in drvOps[s] :
        o.by = s \/ (o.by = CancelHandler /\ o.op = "quit")

\* a driver its thread created and used was quit by the /cancelar handler
C3_Witness ==
    \E s \in Searches :
        {Op(s, "create"), Op(s, "use"), Op(CancelHandler, "quit")} \subseteq drvOps[s]

\* C4: searches clobber one another without any error: when all threads have
\* ended, the error /status reports is the one of the thread whose error
\* handler ran last, which need not be the most recently requested search.
C4_LastWriterWins ==
    (AllDone /\ lastErr # 0) => app.error = [message |-> tfail[lastErr], traceback |-> TRUE]

\* search 1 had published its robot, search 2 reset the state under it and
\* failed first; the final state carries the error of search 1
C4_Witness ==
    /\ AllDone
    /\ nreq = 2
    /\ lastErr = 1
    /\ drv[1] = "quit"
    /\ app.robot = 0
    /\ tfail[1] # tfail[2]
    /\ app.error.message = tfail[1]
    /\ app.status = "error"

\* C5: from the moment POST /sicar/search returned its search_id until another
\* search is requested, GET /sicar/status/<search_id> answers 200, never 404.
C5_SearchIdStaysValid ==
    \A s \in Searches :
        (kind[s] = "sicar" /\ hpc[s] = "returned" /\ nreq = s) => sicar_status(s) = 200

\* C6: within one search the pipeline methods are started in the fixed order,
\* a method only after every earlier one was started, none after a failure,
\* and each at most once.
C6_StagesInOrderAtMostOnce ==
    /\ \A k \in 1..NStages :
          /\ rruns[k] <= 1
          /\ rruns[k] >= 1 => \A j \in 1..(k - 1) : rruns[j] >= 1
    /\ rpc = "end" => \A k \in (rstage + 1)..NStages : rruns[k] = 0

\* C7: the error handler of buscar_sicar leaves status 'error', the error
\* with message and traceback and result None; the step that ends the thread
\* leaves finished_at set; status becomes 'success' only in the step that
\* completes the last stage, together with a result.
C7_ErrorHandling ==
    [][ /\ \A s \in Searches :
              /\ (tpc[s] \in {"t_except", "t_outer"} /\ tpc'[s] # tpc[s]) =>
                    /\ tfail[s] # "none"
                    /\ app'.status = "error"
                    /\ app'.error = [message |-> tfail[s], traceback |-> TRUE]
                    /\ app'.result = "None"
              /\ (tpc[s] # "done" /\ tpc'[s] = "done") => app'.finished_at
        /\ (app.status # "success" /\ app'.status = "success") =>
              /\ app'.result # "None"
              /\ \E s \in Searches :
                    /\ tpc[s] = "t_stage" /\ stage[s] = NStages
                    /\ tpc'[s] = "t_finally" /\ tfail[s] = "none" ]_vars

\* a thread ended after a failure: status 'error', message and traceback,
\* no result, finished_at
C7_Witness ==
    \E s \in Searches :
        /\ tpc[s] = "done"
        /\ tfail[s] # "none"
        /\ app.status = "error"
        /\ app.error = [message |-> tfail[s], traceback |-> TRUE]
        /\ app.result = "None"
        /\ app.finished_at

(* ======================= properties of the robot ====================== *)
Recognised(o) == o \in {"recognised", "link"}

\* an attempt that does not end the call: the page is not recognised (and
\* dev_mode is off) or the load raised
FailedAttempt(o) == ~Recognised(o) /\ (rcfg.dev_mode => o = "raise")

\* C8: acessar_sicar(max_attempts=N) makes at most N attempts; it returns True
\* at the first attempt that is recognised (in dev_mode: that does not raise),
\* making no further attempt; it returns False only after exactly N failed
\* attempts, recording exactly one failed 'open_sicar' diagnostic.
C8_AtMostNAttempts ==
    [][ /\ rpc = "acc_loop" =>
              /\ Len(rhist') <= rN
              /\ rpc' = "acc_loop" => rdiag' = rdiag
              /\ (rpc' = "call" /\ rret' = "True") =>
                    /\ Len(rhist') = Len(rhist) + 1
                    /\ SubSeq(rhist', 1, Len(rhist)) = rhist
                    /\ ~FailedAttempt(rhist'[Len(rhist')])
                    /\ \A i \in 1..Len(rhist) : FailedAttempt(rhist[i])
                    /\ rdiag'.open_fail = rdiag.open_fail
              /\ rpc' = "end" =>
                    /\ rret' = "False"
                    /\ rhist' = rhist
                    /\ Len(rhist) = rN
                    /\ \A i \in 1..Len(rhist) : FailedAttempt(rhist[i])
                    /\ rdiag'.open_fail = rdiag.open_fail + 1
        /\ rpc # "acc_loop" => (rhist' = rhist \/ rhist' = <<>>) ]_vars

\* acessar_sicar gave up after N >= 2 failed attempts with one failed
\* 'open_sicar' diagnostic
C8_Witness ==
    /\ rstage = 1 /\ rpc = "end" /\ rret = "False"
    /\ rN >= 2
    /\ Len(rhist) = rN
    /\ rdiag.open_fail = 1

Strategies == <<"dropdown", "lista", "mapa", "javascript">>

\* C9: selecionar_estado tries dropdown, list, map, JavaScript in this order,
\* returns True at the first that succeeds, and returns False, with one failed
\* 'select_state' diagnostic, only after all four were tried.
C9_FourStrategiesInOrder ==
    /\ (rstage = 4 /\ rpc = "call" /\ rret = "True") =>
          \E n \in 1..Len(Strategies) : rtried = SubSeq(Strategies, 1, n)
    /\ (rstage = 3 /\ rpc = "end" /\ rret = "False") =>
          (rtried = Strategies /\ rdiag.sel_fail = 1)

\* C10: none of the six pipeline methods lets an exception reach its caller.
C10_NoExceptionPropagates ==
    ~(rpc = "end" /\ rret = "raise" /\ rstage \in 1..6)

\* C24: once a running search has been cancelled, and until a new search is
\* requested, status does not become 'success' or 'error', result and error
\* stay None, and no step that is not 'running' becomes 'running'
C24_CancelledPublishesNothing ==
    [][(cancelled # "no" /\ cancelled' # "no") =>
          /\ app'.status \notin {"success", "error"}
          /\ app'.result = "None"
          /\ app'.error = NoError
          /\ \A i \in DOMAIN app'.steps :
                app'.steps[i] = "running" =>
                    (i \in DOMAIN app.steps /\ app.steps[i] = "running")]_vars

\* the steps of app_state in the order of the list (lines 299-306, 703-710)
StepOrder == <<"init", "browser", "access_site", "select_state", "select_city",
               "select_property", "extract", "finish">>

\* the progress GET /status reports in the state a of app_state
ProgressOf(a) ==
    get_status(IF DOMAIN a.steps = {} THEN <<>>
               ELSE [i \in 1..Len(StepOrder) |-> a.steps[StepOrder[i]]]).progress

\* C26: during a single /iniciar search, neither cancelled nor overlapped by
\* another search, the progress GET /status reports never decreases from
\* the moment /iniciar has answered until the search ends
C26_ProgressNeverDecreases ==
    [][(/\ nreq = 1 /\ nreq' = 1
        /\ kind[1] = "iniciar"
        /\ hpc[1] = "returned"
        /\ cancelled = "no" /\ cancelled' = "no") =>
          ProgressOf(app') >= ProgressOf(app)]_vars

(* ================ properties of the functions and handlers ============ *)
\* the two-letter abbreviations of the 27 federative units, in the
\* alphabetical order of the unit names
OfficialUF == <<<<"A", "C">>, <<"A", "L">>, <<"A", "P">>, <<"A", "M">>, <<"B", "A">>, <<"C", "E">>,
               <<"D", "F">>, <<"E", "S">>, <<"G", "O">>, <<"M", "A">>, <<"M", "T">>, <<"M", "S">>,
               <<"M", "G">>, <<"P", "A">>, <<"P", "B">>, <<"P", "R">>, <<"P", "E">>, <<"P", "I">>,
               <<"R", "J">>, <<"R", "N">>, <<"R", "S">>, <<"R", "O">>, <<"R", "R">>, <<"S", "C">>,
               <<"S", "P">>, <<"S", "E">>, <<"T", "O">>>>

\* C12: _mapear_estado_para_sigla maps each of the 27 unit names, in any
\* letter case and with or without accents, to the abbreviation of that very
\* unit, and answers every text with a text.
C12_MapsEveryUnitToItsUF ==
    fn = "_mapear_estado_para_sigla" =>
        /\ DOMAIN ret.sigla = 1..Len(ret.sigla) /\ Len(ret.sigla) <= 2
        /\ \A i \in 1..Len(ret.sigla) : ~ret.sigla[i].lower /\ ~ret.sigla[i].accent
        /\ arg.k # 0 => ret.sigla = Plain(OfficialUF[arg.k])

\* 'paraná', in lower case and with its accent, was mapped to PR although
\* PARA precedes PARANA in the dictionary
C12_Witness ==
    /\ fn = "_mapear_estado_para_sigla"
    /\ arg.k = 16
    /\ arg.s[6] = Ch("A", TRUE, TRUE)
    /\ ret.sigla = Plain(<<"P", "R">>)

\* C23: _mapear_estado_para_sigla is the identity on abbreviations: given
\* one of the 27 two-letter UF codes, in any letter case, it returns that
\* code (in upper case)
C23_IdentityOnUF ==
    (/\ fn = "_mapear_estado_para_sigla"
     /\ arg.k = 0
     /\ \E u \in 1..Len(OfficialUF) : upper(arg.s) = Plain(OfficialUF[u])) =>
        ret.sigla = upper(arg.s)

\* C25, the part on a start request that fails before its thread is
\* created: when /sicar/search has answered without starting a buscar_sicar
\* thread, the status it leaves is not 'running'
C25_RunningImpliesThread ==
    (fn = "sicar_search" /\ ~ret.thread) => ret.app.status # "running"

(* ================ properties of the robot's methods =================== *)
\* C11: the diagnostics list is append-only: no step removes, reorders or
\* rewrites a record; add_diagnostic appends exactly one record made of
\* operation, success, message and timestamp, and _update_status appends
\* exactly one 'status_update' record.
C11_DiagnosticsAppendOnly ==
    [][/\ Len(diagnostics') >= Len(diagnostics)
       /\ SubSeq(diagnostics', 1, Len(diagnostics)) = diagnostics
       /\ (clock' # clock /\ fn' = "add_diagnostic") =>
             /\ Len(diagnostics') = Len(diagnostics) + 1
             /\ LET r == diagnostics'[Len(diagnostics')]
                IN  /\ DOMAIN r = {"operation", "success", "error_message", "timestamp"}
                    /\ r.operation = arg'.operation
                    /\ r.success = arg'.success
       /\ (clock' # clock /\ fn' = "_update_status") =>
             /\ Len(diagnostics') = Len(diagnostics) + 1
             /\ diagnostics'[Len(diagnostics')].operation = "status_update"]_vars

\* add_diagnostic was called on a list that already held a status record,
\* with a callback that raised, and the list holds both records in order
C11_Witness ==
    /\ fn = "add_diagnostic"
    /\ ret = "raise"
    /\ Len(diagnostics) = 2
    /\ diagnostics[1].operation = "status_update"
    /\ diagnostics[2].operation = "access_site"

\* the failed 'initialize_driver' records the last call appended
FailedInitializeDriver ==
    {i \in (arg.records + 1)..Len(diagnostics) :
        diagnostics[i].operation = "initialize_driver" /\ ~diagnostics[i].success}

\* C18: _inicializar_driver makes at most 3 attempts; with self.driver set it
\* returns True and constructs no driver; it returns True at the first
\* attempt that succeeds; when it returns False, self.driver is None, every
\* driver it constructed was quit, and it recorded one failed
\* 'initialize_driver' diagnostic per attempt and one more at the end.
C18_InicializarDriver ==
    fn = "_inicializar_driver" =>
        /\ arg.passes <= 3
        /\ ret \in {"True", "False"}
        /\ arg.driver # "none" =>
              ret = "True" /\ created = arg.created /\ driver = arg.driver
        /\ (arg.driver = "none" /\ ret = "True") =>
              /\ arg.passes = arg.first_ok
              /\ driver = "live"
              /\ created - arg.created = (quits - arg.quits) + 1
        /\ (arg.driver = "none" /\ arg.first_ok \in 1..3) => ret = "True"
        /\ ret = "False" =>
              /\ driver = "none"
              /\ created - arg.created = quits - arg.quits
              /\ Cardinality(FailedInitializeDriver) = arg.passes + 1

\* three attempts failed, one of them after the driver had been
\* constructed, and the call returned False
C18_Witness ==
    /\ fn = "_inicializar_driver"
    /\ ret = "False"
    /\ arg.passes = 3
    /\ quits > arg.quits
    /\ Cardinality(FailedInitializeDriver) = 4

\* a step of identificar_localizacao
LocalizacaoStep == fn' = "identificar_localizacao" /\ clock' = clock + 1

\* the number a text of 6 decimals stands for, in millionths of a degree
\* ('-0.000000' and '0.000000' stand for the same number)
NumberOf(t) == IF t.minus THEN -t.digits ELSE t.digits

\* x rounded to 6 decimals
Rounded6(x) == NumberOf(Format6(x))

\* the cache entry k was written for a coordinate that equals (lat, lon)
\* after rounding to 6 decimals
SameRounded(k, lat, lon) ==
    NumberOf(k[1]) = Rounded6(lat) /\ NumberOf(k[2]) = Rounded6(lon)

\* a call that returns a location leaves it in the cache under its key, and
\* a call that returns None leaves the cache as it was
LocalizacaoSaves ==
    LET key == cache_key(arg'.lat, arg'.lon)
    IN  /\ ret'.value # NoLocation => key \in DOMAIN cache' /\ cache'[key] = ret'.value
        /\ ret'.value = NoLocation => cache' = cache

C17_SicarRunQuitsItsDriver ==
    fn = "sicar_run" => driver = "none" /\ quits = created

\* the value is a number or the text of one
Numeric(v) == v.t = "number" \/ (v.t = "string" /\ v.s = "decimal")

\* the value is there and is neither a number nor the text of one
NonNumeric(v) == v.t # "absent" /\ ~Numeric(v)

\* the requests C21 names: no JSON body, a latitude beyond 90 or a longitude
\* beyond 180 degrees, both zero, or a coordinate that is not a number
NamedForRejection(req) ==
    \/ req.body = "none"
    \/ /\ req.body = "object"
       /\ \/ Numeric(req.lat) /\ Abs(req.lat.n) > 90
          \/ Numeric(req.lon) /\ Abs(req.lon.n) > 180
          \/ Numeric(req.lat) /\ Numeric(req.lon) /\ req.lat.n = 0 /\ req.lon.n = 0
          \/ NonNumeric(req.lat)
          \/ NonNumeric(req.lon)

\* C21: POST /sicar/run answers success=False to a request without JSON
\* body, with |lat| > 90 or |lon| > 180, with lat = lon = 0 or with a
\* non-numeric coordinate, and has then made no SICARRobot and started no
\* browser
C21_SicarRunRejects ==
    (fn = "sicar_run" /\ NamedForRejection(arg.req)) =>
        ~ret.success /\ ~ret.robot /\ created = 0

\* C22: POST /cancelar while status is not 'running' answers 400 with
\* success False and leaves app_state (status, steps, logs, result,
\* finished_at, robot and the rest) and the robot's driver as they were
C22_CancelarRefused ==
    (fn = "cancelar_busca" /\ arg.app.status # "running") =>
        /\ ret.code = 400 /\ ~ret.success
        /\ ret.app = arg.app
        /\ ret.drv = arg.drv

\* a cancel refused after a search has failed, its browser still open
C22_Witness ==
    /\ fn = "cancelar_busca"
    /\ arg.app.status = "error"
    /\ arg.app.robot = 1
    /\ arg.drv = "live"
    /\ ret = [code |-> 400, success |-> FALSE, app |-> arg.app, drv |-> "live"]

\* C13: search_property answers every coordinate pair it can normalise with
\* a record whose found is True; a pair less than 0.1 degree from
\* (-23.276064, -53.266292) in latitude and in longitude gets state 'PR' and
\* municipality 'Douradina'; the state of every record is a key of STATES
\* and its state_name is the name STATES gives for that key.
C13_SearchProperty ==
    fn = "search_property" =>
        /\ normalize_coordinates(arg).raises = "None" =>
              /\ "found" \in DOMAIN ret
              /\ ret.found
              /\ ret.state \in DOMAIN STATES
              /\ ret.state_name = STATES[ret.state]
        /\ (/\ arg.kind # "no_numbers"
            /\ Abs(arg.lat - TestLat) < 100000
            /\ Abs(arg.lng - TestLon) < 100000) =>
              ret.state = "PR" /\ ret.municipality = "Douradina"

\* a pair 0.099999 degree from the test coordinate in both directions, which
\* lies in the rectangle of Rio Grande do Sul, got PR and Douradina
C13_Witness ==
    /\ fn = "search_property"
    /\ arg.lat = TestLat - 99999
    /\ arg.lng = TestLon + 99999
    /\ ret.found
    /\ ret.state = "PR"
    /\ ret.municipality = "Douradina"

Supplied(req, short, long) ==
    {f[k] : f \in {req.fields, req.args, req.form}, k \in {short, long}}
        \ {Absent, "empty"}

\* C15: POST /iniciar starts a search for every request that supplies a
\* latitude and a longitude in the JSON body, the query string or the form
\* and whose values convert to numbers; it answers 400 'Coordenadas não
\* fornecidas' only when a coordinate is supplied by no source.
C15_IniciarAcceptsEverySource ==
    fn = "iniciar_busca" =>
        LET lats == Supplied(arg, "lat", "latitude")
            lons == Supplied(arg, "lon", "longitude")
        IN  /\ (/\ lats # {} /\ \A v \in lats : Converts(v)
                /\ lons # {} /\ \A v \in lons : Converts(v)) => ret.code = 200
            /\ ret = Response(400, "Coordenadas não fornecidas") =>
                  (lats = {} \/ lons = {})

\* C16: the progress GET /status reports is the integer part of
\* (100*c + 50*r)/n for n steps of which c are 'success' or 'error' and r are
\* 'running', and 0 when there are no steps; it lies within 0..100 and is 100
\* exactly when every step is 'success' or 'error'.
C16_Progress ==
    fn = "get_status" =>
        LET n == Len(arg.steps)
            c == Cardinality({i \in 1..n : arg.steps[i] \in {"success", "error"}})
            r == Cardinality({i \in 1..n : arg.steps[i] = "running"})
        IN  /\ n = 0 => ret.progress = 0
            /\ n > 0 =>
                  /\ ret.progress * n <= 100 * c + 50 * r
                  /\ 100 * c + 50 * r < (ret.progress + 1) * n
                  /\ (ret.progress = 100) <=> (c = n)
            /\ ret.progress \in 0..100

\* eight steps, one finished and one running: 150/8 is reported as 18
C16_Witness ==
    /\ fn = "get_status"
    /\ arg.steps = EightSteps(1, 1, 0)
    /\ ret.progress = 18

====
